---- MODULE Spec2Model ----
(***************************************************************************)
(* Match engine and entitlement ledger of the quiz-game backend            *)
(* (backend/app/services/match_service.py, wallet_service.py,              *)
(* question_service.py).                                                   *)
(*                                                                         *)
(* The database is the state: the users' entitlements and the matches      *)
(* collection.  The handlers are built from one set of operators and run   *)
(* under four specifications:                                              *)
(*   - SeqSpec: every handler is one action (requests never overlap);      *)
(*   - Spec: next_question as the sequence of its database operations      *)
(*     (find_one / update_one), one action per operation, in NProcs        *)
(*     request slots, so that requests interleave between their database   *)
(*     operations as they do in the FastAPI thread pool;                   *)
(*   - JudgeSpec: judge_round and finish_match in the same way, on a match *)
(*     whose rounds have been asked for;                                   *)
(*   - WalletSpec: create_match in the same way, next to the               *)
(*     consume-round endpoint.                                             *)
(* find_one without a sort returns the first matching document in natural  *)
(* order.  Timestamps created_at / updated_at are not modelled;            *)
(* finished_at is a logical clock value.                                   *)
(***************************************************************************)
EXTENDS Integers, Sequences, FiniteSets, TLC

\* ---------------------------------------------------------------- bounds
MaxRounds == 3
MaxBalance == 2
MaxConsumeCalls == 3
NProcs == 2
MaxPurchases == 1
\* otps documents ever inserted, and the last instant of the clock
MaxOtps == 2
MaxTime == 2
\* settings.OTP_EXPIRE_MINUTES, in clock instants
OTP_EXPIRE_MINUTES == 1

\* ------------------------------------------------------ program constants
DEFAULT_QUESTIONS_PER_LEVEL == 2
MAX_CATEGORIES == 6

None == "None"
NoTime == 0
NoQuestion == 0

Users == {"u1", "u2"}
Procs == 1..NProcs
MatchIds == {1, 2}
Levels == {1, 2, 3}
JudgeSelection == {"TEAM_A", "TEAM_B", "NO_ONE"}

\* categories collection: id -> active flag; "bad" is not a well-formed id
Categories == [c1 |-> TRUE, c2 |-> TRUE, c3 |-> TRUE, c4 |-> FALSE]
CategoryIds == {"c1", "c2", "c3", "c4"}
is_valid(id) == id \in CategoryIds

\* questions collection in natural order; a question's id is its position
Questions ==
  << [category_id |-> "c1", level |-> 1, points |-> 100, status |-> "draft",
      prompt |-> "p1", hint |-> [enabled |-> FALSE, content |-> None], answer |-> "a1"],
     [category_id |-> "c1", level |-> 1, points |-> 100, status |-> "active",
      prompt |-> "p2", hint |-> [enabled |-> TRUE, content |-> "h2"], answer |-> "a2"],
     [category_id |-> "c1", level |-> 1, points |-> 100, status |-> "active",
      prompt |-> "p3", hint |-> [enabled |-> FALSE, content |-> None], answer |-> "a3"],
     [category_id |-> "c1", level |-> 1, points |-> 100, status |-> "active",
      prompt |-> "p4", hint |-> [enabled |-> TRUE, content |-> "h4"], answer |-> "a4"],
     [category_id |-> "c1", level |-> 2, points |-> 100, status |-> "active",
      prompt |-> "p5", hint |-> [enabled |-> TRUE, content |-> "h5"], answer |-> "a5"],
     [category_id |-> "c2", level |-> 3, points |-> 500, status |-> "active",
      prompt |-> "p6", hint |-> [enabled |-> TRUE, content |-> "h6"], answer |-> None],
     [category_id |-> "c3", level |-> 1, points |-> 100, status |-> "active",
      prompt |-> "p7", hint |-> [enabled |-> TRUE, content |-> "h7"], answer |-> "a7"] >>

\* request inputs
SevenCategories == <<"c1", "c2", "c3", "c1", "c2", "c3", "c1">>
CreateInputs == { <<"c1", "c2">>, <<"c2">>, <<"c1", "c4">>, <<"bad">>, SevenCategories }
CategoryInputs == {"c1", "c2", "c3", "bad"}
RoundNoInputs == 1..(MaxRounds + 1)
\* <<match_id, user_id>>: the owner on its match, another user on it, and a
\* match id that no match has
Owner == <<1, "u1">>
Callers == {Owner, <<1, "u2">>, <<2, "u1">>}
NextQuestionInputs ==
  {<<Owner[1], Owner[2], c, l>> : c \in CategoryInputs, l \in Levels}
    \cup {<<mu[1], mu[2], "c1", 1>> : mu \in Callers}
JudgeRoundInputs ==
  {<<Owner[1], Owner[2], r, s>> : r \in RoundNoInputs, s \in JudgeSelection}
    \cup {<<mu[1], mu[2], 1, "TEAM_A">> : mu \in Callers}
RoundInputs ==
  {<<Owner[1], Owner[2], r>> : r \in RoundNoInputs} \cup {<<mu[1], mu[2], 1>> : mu \in Callers}
\* request bodies of POST /matches: the createMatch inputs, an empty list and
\* one category named twice
CategoryListInputs == CreateInputs \cup { <<>>, <<"c1", "c1">> }
\* question ids of DELETE /admin/questions/{question_id}: the first questions
\* served for c1 / level 1 and c2 / level 3, and an id the pool does not hold
DeleteQuestionInputs == {2, 6, 9}
\* purchase ids of DELETE /purchases/{purchase_id}: the stored ones and one more
PurchaseIdInputs == 1..(MaxPurchases + 1)
\* exclusion lists handed to pick_next_question: every list of at most two
\* question ids, in both orders and with repetition, and two longer ones
ExcludedInputs ==
  {<<>>} \cup {<<a>> : a \in 1..Len(Questions)}
         \cup {<<a, b>> : a, b \in 1..Len(Questions)}
         \cup {<<2, 3, 4>>, <<4, 3, 2>>}
\* user ids can_start_match is asked about: "u3" has no user record
UserIdInputs == Users \cup {"u3"}
\* emails as requests spell them, the digits _generate_otp draws from, and
\* the passwords of register requests
EmailInputs == {"ann@x", "Ann@x", "bob@x"}
OtpValues == {"1", "2"}
PasswordInputs == {"pw1", "pw2"}
\* RoundPackPurchaseRequest.rounds is any int
RoundsInputs == {-1, 1, 2}
PatchInputs ==
  { [teamA_name |-> None, teamB_name |-> None, avatar_keyA |-> None, avatar_keyB |-> None],
    [teamA_name |-> "Alpha", teamB_name |-> None, avatar_keyA |-> None, avatar_keyB |-> "k"] }

\* ------------------------------------------------------------- utilities
Min(S) == CHOOSE x \in S : \A y \in S : x <= y
Max2(a, b) == IF a >= b THEN a ELSE b
Min2(a, b) == IF a <= b THEN a ELSE b
Range(s) == {s[i] : i \in 1..Len(s)}

RECURSIVE SumSeq(_)
SumSeq(s) == IF s = <<>> THEN 0 ELSE Head(s) + SumSeq(Tail(s))

\* ------------------------------------------------------------------ state
VARIABLES
  users,         \* users collection: user id -> entitlements
  matches,       \* matches collection in insertion order; a match's id is its position
  clock,         \* source of datetime.now() for finished_at
  loc,           \* per request slot: the handler's position and its local variables
  resp,          \* SeqSpec: the response of the request that completed last
  balance0,      \* history: rounds_balance of each user in the initial state
  consumeCalls,  \* history: consume_round calls made, per user
  consumeOk,     \* history: consume_round calls that did not raise, per user
  purchases,     \* purchases collection in insertion order
  accounts,      \* users collection in insertion order, as registration sees it
  otps,          \* otps collection: its documents and the number ever inserted
  deleted_questions  \* ids of the questions delete_question has taken out of the pool

vars == <<users, matches, clock, loc, resp, balance0, consumeCalls, consumeOk, purchases,
          accounts, otps, deleted_questions>>

\* ------------------------------------------------------------ match_service
LEVEL_POINTS_flat(level) == 100

LEVEL_POINTS(level) == CASE level = 1 -> 100 [] level = 2 -> 200 [] level = 3 -> 500

default_settings(timer_seconds) ==
  [ timer_seconds |-> IF timer_seconds = 0 THEN 10 ELSE timer_seconds,
    max_categories |-> 6,
    levels |-> << [level |-> 1, points |-> 100, questions_per_level |-> 2],
                  [level |-> 2, points |-> 200, questions_per_level |-> 2],
                  [level |-> 3, points |-> 500, questions_per_level |-> 2] >>,
    allow_negative_points |-> FALSE ]

get_questions_per_level(match_doc, level) ==
  LET ls == match_doc.settings.levels
      hit == {i \in 1..Len(ls) : ls[i].level = level}
  IN IF hit = {} THEN DEFAULT_QUESTIONS_PER_LEVEL
     ELSE Max2(1, ls[Min(hit)].questions_per_level)

get_used_question_ids_for_level(match_doc, category_id, level) ==
  LET ul == match_doc.progress.usage
      hit == {i \in 1..Len(ul) : ul[i].category_id = category_id /\ ul[i].level = level}
  IN IF hit = {} THEN <<>> ELSE ul[Min(hit)].used_question_ids

pick_next_question_any_used(category_id, level, used_question_ids) ==
  LET hit == {i \in 1..Len(Questions) :
                /\ Questions[i].category_id = category_id
                /\ Questions[i].level = level
                /\ Questions[i].points = LEVEL_POINTS(level)
                /\ Questions[i].status = "active"
                /\ i \notin deleted_questions}
  IN IF hit = {} THEN NoQuestion ELSE Min(hit)

\* question_service.pick_next_question: first question in natural order that
\* matches; NoQuestion when there is none
pick_next_question(category_id, level, used_question_ids) ==
  LET points == LEVEL_POINTS(level)
      hit == {i \in 1..Len(Questions) \ deleted_questions :
                /\ Questions[i].category_id = category_id
                /\ Questions[i].level = level
                /\ Questions[i].points = points
                /\ Questions[i].status = "active"
                /\ i \notin Range(used_question_ids)}
  IN IF hit = {} THEN NoQuestion ELSE Min(hit)

\* an AppError as the boundary layer renders it, or a success payload
Resp(op, code, status_code, body) ==
  [op |-> op, code |-> code, status_code |-> status_code, body |-> body]

NoBody == <<>>

\* a match id keeps its position in the collection when delete_one removes
\* the document: status "deleted" marks the place of a removed document
match_exists(ms, match_id) == match_id \in 1..Len(ms) /\ ms[match_id].status # "deleted"

owned_match_any_caller(ms, match_id, user_id) == match_exists(ms, match_id)

\* get_match_internal followed by the owner test every handler starts with
owned_match(ms, match_id, user_id) ==
  /\ match_exists(ms, match_id)
  /\ ms[match_id].created_by_user_id = user_id

\* ---- create_match
validate_categories_accept_all(selected_category_ids) ==
  Resp("createMatch", "OK", 200, NoBody)

validate_categories(selected_category_ids) ==
  LET sel == selected_category_ids
      bad == {i \in 1..Len(sel) : ~is_valid(sel[i]) \/ ~Categories[sel[i]]}
  IN IF Len(sel) > MAX_CATEGORIES
     THEN Resp("createMatch", "MAX_CATEGORIES_EXCEEDED", 400, [max |-> MAX_CATEGORIES])
     ELSE IF bad # {}
     THEN Resp("createMatch", "INVALID_CATEGORIES", 400, [category_id |-> sel[Min(bad)]])
     ELSE Resp("createMatch", "OK", 200, NoBody)

\* CreateMatchRequest: Field(..., min_length=1, max_length=20)
CreateMatchRequest_valid(selected_category_ids) ==
  Len(selected_category_ids) >= 1 /\ Len(selected_category_ids) <= 20

new_match_doc(user_id, selected_category_ids, teamA_name, teamB_name, timer_seconds) ==
  [ created_by_user_id |-> user_id,
    mode |-> "team",
    status |-> "active",
    selected_category_ids |-> selected_category_ids,
    teams |-> [A |-> [name |-> teamA_name, avatar_key |-> None, score |-> 0],
               B |-> [name |-> teamB_name, avatar_key |-> None, score |-> 0]],
    settings |-> default_settings(timer_seconds),
    progress |-> [usage |-> <<>>],
    rounds |-> <<>>,
    finished_at |-> NoTime ]

\* ---- wallet_service
can_start_match_paid_first(us, user_id) ==
  IF user_id \notin DOMAIN us THEN [can_start |-> FALSE, use_free |-> FALSE]
  ELSE IF us[user_id].rounds_balance > 0 THEN [can_start |-> TRUE, use_free |-> FALSE]
  ELSE IF ~us[user_id].free_round_used THEN [can_start |-> TRUE, use_free |-> TRUE]
  ELSE [can_start |-> FALSE, use_free |-> FALSE]

can_start_match(us, user_id) ==
  IF user_id \notin DOMAIN us THEN [can_start |-> FALSE, use_free |-> FALSE]
  ELSE IF ~us[user_id].free_round_used THEN [can_start |-> TRUE, use_free |-> TRUE]
  ELSE IF us[user_id].rounds_balance > 0 THEN [can_start |-> TRUE, use_free |-> FALSE]
  ELSE [can_start |-> FALSE, use_free |-> FALSE]

use_free_round_unmarked(us, user_id) == us

use_free_round(us, user_id) ==
  IF user_id \in DOMAIN us THEN [us EXCEPT ![user_id].free_round_used = TRUE] ELSE us

\* the filter of consume_round's update_one: the document it modifies, if any
consume_round_unguarded(us, user_id) == user_id \in DOMAIN us

consume_round_matches(us, user_id) ==
  user_id \in DOMAIN us /\ us[user_id].rounds_balance > 0

consume_round_free_of_charge(us, user_id) ==
  [modified_count |-> 1, users |-> us]

consume_round(us, user_id) ==
  IF consume_round_matches(us, user_id)
  THEN [modified_count |-> 1, users |-> [us EXCEPT ![user_id].rounds_balance = @ - 1]]
  ELSE [modified_count |-> 0, users |-> us]

\* add_rounds, its update_one {"$inc": {"entitlements.rounds_balance": delta}}
add_rounds_inc(us, user_id, delta) ==
  IF user_id \in DOMAIN us THEN [us EXCEPT ![user_id].rounds_balance = @ + delta] ELSE us

\* add_rounds, the document of its purchases.insert_one
purchase_doc(user_id, delta, product_id, provider) ==
  [ user_id |-> user_id,
    product_id |-> product_id,
    provider |-> provider,
    provider_ref |-> None,
    rounds_delta |-> delta ]

\* a purchase that delete_one has removed keeps its place, so that the ids of
\* the others stay what they were
RemovedPurchase == [purchase_doc(None, 0, None, None) EXCEPT !.provider = "deleted"]

\* purchases.find_one({"_id": ObjectId(purchase_id)})
purchase_found(ps, purchase_id) ==
  purchase_id \in 1..Len(ps) /\ ps[purchase_id] # RemovedPurchase

\* DELETE /purchases/{purchase_id}: the checks, then delete_one
delete_purchase_plan(ps, purchase_id, user_id) ==
  IF ~purchase_found(ps, purchase_id)
  THEN Resp("deletePurchase", "PURCHASE_NOT_FOUND", 404, NoBody)
  ELSE IF ps[purchase_id].user_id # user_id
  THEN Resp("deletePurchase", "FORBIDDEN", 403, NoBody)
  ELSE Resp("deletePurchase", "OK", 204, NoBody)

delete_purchase(ps, purchase_id) == [ps EXCEPT ![purchase_id] = RemovedPurchase]

\* ---- next_question
quota_never_reached(used, max_per_level) == FALSE

quota_reached_late(used, max_per_level) == Len(used) > max_per_level

quota_reached(used, max_per_level) == Len(used) >= max_per_level

\* the question payload of the next-question response
game_question_with_answer(question_id) ==
  [ id |-> question_id,
    prompt |-> Questions[question_id].prompt,
    hint_available |-> Questions[question_id].hint.enabled,
    answer |-> Questions[question_id].answer ]

game_question(question_id) ==
  [ id |-> question_id,
    prompt |-> Questions[question_id].prompt,
    hint_available |-> Questions[question_id].hint.enabled ]

next_question_plan_any_category(ms, match_id, user_id, category_id, level) ==
  IF ~owned_match(ms, match_id, user_id)
  THEN Resp("nextQuestion", "MATCH_NOT_FOUND", 404, NoBody)
  ELSE LET match_doc == ms[match_id]
           selected == match_doc.selected_category_ids
  IN IF match_doc.status # "active"
     THEN Resp("nextQuestion", "MATCH_NOT_ACTIVE", 400, NoBody)
     ELSE LET max_per_level == get_questions_per_level(match_doc, level)
              used == get_used_question_ids_for_level(match_doc, category_id, level)
          IN IF quota_reached(used, max_per_level)
             THEN Resp("nextQuestion", "LEVEL_QUOTA_EXCEEDED", 409,
                       [category_id |-> category_id, level |-> level,
                        max_per_level |-> max_per_level])
             ELSE LET question == pick_next_question(category_id, level, used)
                  IN IF question = NoQuestion
                     THEN Resp("nextQuestion", "NO_QUESTIONS_LEFT_FOR_LEVEL", 409,
                               [category_id |-> category_id, level |-> level])
                     ELSE Resp("nextQuestion", "OK", 200,
                               [ round_no |-> Len(match_doc.rounds) + 1,
                                 category_id |-> category_id,
                                 level |-> level,
                                 points |-> LEVEL_POINTS(level),
                                 question_id |-> question,
                                 timer_seconds |-> match_doc.settings.timer_seconds,
                                 question |-> game_question(question) ])

next_question_plan(ms, match_id, user_id, category_id, level) ==
  IF ~owned_match(ms, match_id, user_id)
  THEN Resp("nextQuestion", "MATCH_NOT_FOUND", 404, NoBody)
  ELSE LET match_doc == ms[match_id]
           selected == match_doc.selected_category_ids
  IN IF match_doc.status # "active"
     THEN Resp("nextQuestion", "MATCH_NOT_ACTIVE", 400, NoBody)
     ELSE IF ~is_valid(category_id) \/ category_id \notin Range(selected)
     THEN Resp("nextQuestion", "INVALID_CATEGORIES", 400,
               [category_id |-> category_id, selected_category_ids |-> selected])
     ELSE LET max_per_level == get_questions_per_level(match_doc, level)
              used == get_used_question_ids_for_level(match_doc, category_id, level)
          IN IF quota_reached(used, max_per_level)
             THEN Resp("nextQuestion", "LEVEL_QUOTA_EXCEEDED", 409,
                       [category_id |-> category_id, level |-> level,
                        max_per_level |-> max_per_level])
             ELSE LET question == pick_next_question(category_id, level, used)
                  IN IF question = NoQuestion
                     THEN Resp("nextQuestion", "NO_QUESTIONS_LEFT_FOR_LEVEL", 409,
                               [category_id |-> category_id, level |-> level])
                     ELSE Resp("nextQuestion", "OK", 200,
                               [ round_no |-> Len(match_doc.rounds) + 1,
                                 category_id |-> category_id,
                                 level |-> level,
                                 points |-> LEVEL_POINTS(level),
                                 question_id |-> question,
                                 timer_seconds |-> match_doc.settings.timer_seconds,
                                 question |-> game_question(question) ])

round_entry_of(body) ==
  [ round_no |-> body.round_no,
    category_id |-> body.category_id,
    level |-> body.level,
    points |-> body.points,
    question_id |-> body.question_id,
    judge_selection |-> None,
    scored_team |-> None,
    scored_points |-> 0 ]

push_round_front(ms, match_id, round_entry) ==
  IF match_exists(ms, match_id)
  THEN [ms EXCEPT ![match_id].rounds = <<round_entry>> \o @]
  ELSE ms

\* update_one {"$push": {"rounds": round_entry}}
push_round(ms, match_id, round_entry) ==
  IF match_exists(ms, match_id)
  THEN [ms EXCEPT ![match_id].rounds = Append(@, round_entry)]
  ELSE ms

\* _ensure_usage_entry, the list it computes from the document it re-reads
ensure_usage_list(match_doc, category_id, level, question_id) ==
  LET ul == match_doc.progress.usage
      hit == {i \in 1..Len(ul) : ul[i].category_id = category_id /\ ul[i].level = level}
  IN IF hit # {}
     THEN LET i == Min(hit)
              used == ul[i].used_question_ids
          IN [ul EXCEPT ![i].used_question_ids =
                IF question_id \in Range(used) THEN used ELSE Append(used, question_id)]
     ELSE Append(ul, [category_id |-> category_id, level |-> level,
                      used_question_ids |-> <<question_id>>])

\* _ensure_usage_entry, its update_one {"$set": {"progress.usage": usage_list}}
set_usage(ms, match_id, usage_list) ==
  IF match_exists(ms, match_id)
  THEN [ms EXCEPT ![match_id].progress.usage = usage_list]
  ELSE ms

\* ---- judge_round
\* next((r for r in rounds_list if r.get("round_no") == round_no), None), as an
\* index into rounds; 0 when there is none
find_round(match_doc, round_no) ==
  LET hit == {i \in 1..Len(match_doc.rounds) : match_doc.rounds[i].round_no = round_no}
  IN IF hit = {} THEN 0 ELSE Min(hit)

never_judged(round_entry) == FALSE

already_judged(round_entry) == round_entry.judge_selection # None

scored_team_of(judge_selection) ==
  CASE judge_selection = "TEAM_A" -> "A"
    [] judge_selection = "TEAM_B" -> "B"
    [] OTHER -> None

scored_points_of_any(judge_selection, points) == points

scored_points_of(judge_selection, points) ==
  IF judge_selection \in {"TEAM_A", "TEAM_B"} THEN points ELSE 0

new_score_any_team(old_score, team, scored_team, scored_points) ==
  old_score + scored_points

new_score(old_score, team, scored_team, scored_points) ==
  old_score + (IF scored_team = team THEN scored_points ELSE 0)

judge_round_plan(ms, match_id, user_id, round_no, judge_selection) ==
  IF ~owned_match(ms, match_id, user_id)
  THEN Resp("judgeRound", "MATCH_NOT_FOUND", 404, NoBody)
  ELSE LET match_doc == ms[match_id]
           i == find_round(match_doc, round_no)
  IN IF match_doc.status # "active"
     THEN Resp("judgeRound", "MATCH_NOT_ACTIVE", 400, NoBody)
     ELSE IF i = 0
     THEN Resp("judgeRound", "ROUND_NOT_FOUND", 404, [round_no |-> round_no])
     ELSE IF already_judged(match_doc.rounds[i])
     THEN Resp("judgeRound", "ROUND_ALREADY_JUDGED", 409, [round_no |-> round_no])
     ELSE LET points == match_doc.rounds[i].points
              scored_team == scored_team_of(judge_selection)
              scored_points == scored_points_of(judge_selection, points)
          IN Resp("judgeRound", "OK", 200,
                  [ round_no |-> round_no,
                    judge_selection |-> judge_selection,
                    scored_team |-> scored_team,
                    scored_points |-> scored_points,
                    teamA |-> new_score(match_doc.teams.A.score, "A", scored_team, scored_points),
                    teamB |-> new_score(match_doc.teams.B.score, "B", scored_team, scored_points) ])

\* update_one({"_id": ..., "rounds.round_no": round_no}, {"$set": {"rounds.$...."}}):
\* the positional operator is the first round with that round_no; no document
\* matches the filter when there is none
judge_update(ms, match_id, body) ==
  IF ~match_exists(ms, match_id) THEN ms
  ELSE LET i == find_round(ms[match_id], body.round_no)
       IN IF i = 0 THEN ms
          ELSE [ms EXCEPT ![match_id].rounds[i].judge_selection = body.judge_selection,
                          ![match_id].rounds[i].scored_team = body.scored_team,
                          ![match_id].rounds[i].scored_points = body.scored_points,
                          ![match_id].teams.A.score = body.teamA,
                          ![match_id].teams.B.score = body.teamB]

\* ---- finish_match
never_finished(match_doc) == FALSE

is_finished(match_doc) == match_doc.status = "finished"

count_judged_any(rounds_list, judge_selection) ==
  Cardinality({i \in 1..Len(rounds_list) : rounds_list[i].judge_selection # None})

count_judged(rounds_list, judge_selection) ==
  Cardinality({i \in 1..Len(rounds_list) : rounds_list[i].judge_selection = judge_selection})

winner_of_ties_to_A(teamA_score, teamB_score, teamA_name, teamB_name) ==
  IF teamA_score >= teamB_score THEN [result |-> "TEAM_A", name |-> teamA_name]
  ELSE [result |-> "TEAM_B", name |-> teamB_name]

winner_of(teamA_score, teamB_score, teamA_name, teamB_name) ==
  IF teamA_score > teamB_score THEN [result |-> "TEAM_A", name |-> teamA_name]
  ELSE IF teamB_score > teamA_score THEN [result |-> "TEAM_B", name |-> teamB_name]
  ELSE [result |-> "DRAW", name |-> None]

finish_match_plan(ms, match_id, user_id) ==
  IF ~owned_match(ms, match_id, user_id)
  THEN Resp("finishMatch", "MATCH_NOT_FOUND", 404, NoBody)
  ELSE LET match_doc == ms[match_id]
           teamA_score == match_doc.teams.A.score
           teamB_score == match_doc.teams.B.score
           rounds_list == match_doc.rounds
  IN IF is_finished(match_doc)
     THEN Resp("finishMatch", "MATCH_ALREADY_FINISHED", 400, NoBody)
     ELSE Resp("finishMatch", "OK", 200,
               [ status |-> "finished",
                 teamA |-> teamA_score,
                 teamB |-> teamB_score,
                 winner_result |-> winner_of(teamA_score, teamB_score,
                                             match_doc.teams.A.name, match_doc.teams.B.name).result,
                 winner_name |-> winner_of(teamA_score, teamB_score,
                                           match_doc.teams.A.name, match_doc.teams.B.name).name,
                 teamA_correct |-> count_judged(rounds_list, "TEAM_A"),
                 teamB_correct |-> count_judged(rounds_list, "TEAM_B"),
                 no_one |-> count_judged(rounds_list, "NO_ONE"),
                 total_rounds |-> Len(rounds_list) ])

\* update_one {"$set": {"status": "finished", "finished_at": now}}
finish_update_closing_rounds(ms, match_id, now) ==
  IF match_exists(ms, match_id)
  THEN [ms EXCEPT ![match_id].status = "finished", ![match_id].finished_at = now,
                  ![match_id].rounds = [i \in 1..Len(@) |->
                     IF @[i].judge_selection = None
                     THEN [@[i] EXCEPT !.judge_selection = "NO_ONE"] ELSE @[i]]]
  ELSE ms

finish_update(ms, match_id, now) ==
  IF match_exists(ms, match_id)
  THEN [ms EXCEPT ![match_id].status = "finished", ![match_id].finished_at = now]
  ELSE ms

\* ---- patch_teams
patch_teams_plan_any_status(ms, match_id, user_id) ==
  IF ~owned_match(ms, match_id, user_id)
  THEN Resp("patchTeams", "MATCH_NOT_FOUND", 404, NoBody)
  ELSE Resp("patchTeams", "OK", 200, NoBody)

patch_teams_plan(ms, match_id, user_id) ==
  IF ~owned_match(ms, match_id, user_id)
  THEN Resp("patchTeams", "MATCH_NOT_FOUND", 404, NoBody)
  ELSE IF ms[match_id].status # "active"
  THEN Resp("patchTeams", "MATCH_NOT_ACTIVE", 400, NoBody)
  ELSE Resp("patchTeams", "OK", 200, NoBody)

patch_value(old, new) == IF new # None THEN new ELSE old

\* update_one {"$set": update} with the fields that are not None
patch_update(ms, match_id, req) ==
  IF match_exists(ms, match_id)
  THEN [ms EXCEPT ![match_id].teams.A.name = patch_value(@, req.teamA_name),
                  ![match_id].teams.B.name = patch_value(@, req.teamB_name),
                  ![match_id].teams.A.avatar_key = patch_value(@, req.avatar_keyA),
                  ![match_id].teams.B.avatar_key = patch_value(@, req.avatar_keyB)]
  ELSE ms

\* get_match(match_id, user_id), the part of the projection the model keeps
get_match(ms, match_id, user_id) ==
  IF owned_match(ms, match_id, user_id)
  THEN Resp("patchTeams", "OK", 200, [teams |-> ms[match_id].teams, status |-> ms[match_id].status])
  ELSE Resp("patchTeams", "OK", 200, None)

\* ---- GET /matches/{match_id}
get_match_plan(ms, match_id, user_id) ==
  IF ~owned_match(ms, match_id, user_id)
  THEN Resp("getMatch", "MATCH_NOT_FOUND", 404, NoBody)
  ELSE Resp("getMatch", "OK", 200, get_match(ms, match_id, user_id).body)

\* ---- get_round_hint / get_round_answer
question_found_always(question_id) == TRUE

\* questions.find_one({"_id": ObjectId(question_id)}) finds a document
question_found(question_id) ==
  question_id \in 1..Len(Questions) /\ question_id \notin deleted_questions

get_question_hint(question_id) ==
  IF question_found(question_id) THEN Questions[question_id].hint ELSE None

get_question_answer(question_id) ==
  IF question_found(question_id)
  THEN [answer |-> Questions[question_id].answer]
  ELSE None

get_round_hint(ms, match_id, user_id, round_no) ==
  IF ~owned_match(ms, match_id, user_id)
  THEN Resp("getRoundHint", "MATCH_NOT_FOUND", 404, NoBody)
  ELSE LET i == find_round(ms[match_id], round_no)
       IN IF i = 0 \/ ms[match_id].rounds[i].question_id = NoQuestion
          THEN Resp("getRoundHint", "ROUND_NOT_FOUND", 404, [round_no |-> round_no])
          ELSE IF ~question_found(ms[match_id].rounds[i].question_id)
          THEN Resp("getRoundHint", "QUESTION_NOT_FOUND", 404, NoBody)
          ELSE Resp("getRoundHint", "OK", 200,
                    get_question_hint(ms[match_id].rounds[i].question_id))

get_round_answer(ms, match_id, user_id, round_no) ==
  IF ~owned_match(ms, match_id, user_id)
  THEN Resp("getRoundAnswer", "MATCH_NOT_FOUND", 404, NoBody)
  ELSE LET i == find_round(ms[match_id], round_no)
       IN IF i = 0 \/ ms[match_id].rounds[i].question_id = NoQuestion
          THEN Resp("getRoundAnswer", "ROUND_NOT_FOUND", 404, [round_no |-> round_no])
          ELSE IF ~question_found(ms[match_id].rounds[i].question_id)
          THEN Resp("getRoundAnswer", "QUESTION_NOT_FOUND", 404, NoBody)
          ELSE Resp("getRoundAnswer", "OK", 200,
                    get_question_answer(ms[match_id].rounds[i].question_id))

\* ---- question_service.delete_question
delete_question(question_id) ==
  IF question_found(question_id)
  THEN [deleted_count |-> 1, deleted_questions |-> deleted_questions \cup {question_id}]
  ELSE [deleted_count |-> 0, deleted_questions |-> deleted_questions]

\* ---- delete_match
Removed == [new_match_doc(None, <<>>, "", "", 0) EXCEPT !.status = "deleted"]

\* delete_one({"_id": ..., "created_by_user_id": ...})
delete_match(ms, match_id, user_id) ==
  IF owned_match(ms, match_id, user_id)
  THEN [deleted_count |-> 1, matches |-> [ms EXCEPT ![match_id] = Removed]]
  ELSE [deleted_count |-> 0, matches |-> ms]

\* ---- otp_service: registration
\* str.lower()
lower(email) == IF email = "Ann@x" THEN "ann@x" ELSE email

get_password_hash(password) == <<"hash", password>>

\* users.find_one({"email": email})
find_user(accts, email) == \E i \in 1..Len(accts) : accts[i].email = email

\* the unique index on users.email: does insert_one raise DuplicateKeyError
no_email_index(accts, email) == FALSE

duplicate_key(accts, email) == find_user(accts, email)

\* otps.find_one({"email": email, "purpose": purpose}): position of the
\* first document in natural order, 0 when there is none
find_otp(docs, email, purpose) ==
  LET hits == {i \in 1..Len(docs) : docs[i].email = email /\ docs[i].purpose = purpose}
  IN IF hits = {} THEN 0 ELSE Min(hits)

delete_many(docs, email, purpose) ==
  SelectSeq(docs, LAMBDA d : ~(d.email = email /\ d.purpose = purpose))

\* otps.delete_one({"_id": id})
delete_one(docs, id) == SelectSeq(docs, LAMBDA d : d._id # id)

otp_doc(id, email, otp, password, now) ==
  [ _id |-> id,
    email |-> email,
    otp |-> otp,
    purpose |-> "register",
    password_hash |-> get_password_hash(password),
    expires_at |-> now + OTP_EXPIRE_MINUTES ]

\* request_otp, the document of its insert_one for purpose "login"
login_otp_doc(id, email, otp, now) ==
  [ _id |-> id,
    email |-> email,
    otp |-> otp,
    purpose |-> "login",
    expires_at |-> now + OTP_EXPIRE_MINUTES ]

\* _otp_matches with settings.ENV = "production"
otp_matches(stored_otp, supplied_otp) == stored_otp = supplied_otp

user_doc(email, password_hash) ==
  [ email |-> email,
    password_hash |-> password_hash,
    entitlements |-> [free_round_used |-> FALSE, rounds_balance |-> 0] ]

Idle == [pc |-> "idle"]

UsedUp == [free_round_used |-> TRUE, rounds_balance |-> 0]

InitCommon ==
  /\ balance0 = [u \in Users |-> users[u].rounds_balance]
  /\ clock = 0
  /\ loc = [p \in Procs |-> Idle]
  /\ resp = Resp("none", "OK", 0, NoBody)
  /\ consumeCalls = [u \in Users |-> 0]
  /\ consumeOk = [u \in Users |-> 0]
  /\ purchases = <<>>
  /\ accounts = <<>>
  /\ otps = [docs |-> <<>>, inserted |-> 0]
  /\ deleted_questions = {}

\* u1 as registered (UserEntitlements()) or with its free round spent and one
\* purchased round; u2 can start no match
InitSeq ==
  /\ \E e \in { [free_round_used |-> FALSE, rounds_balance |-> 0],
                [free_round_used |-> TRUE, rounds_balance |-> 1] } :
       users = [u \in Users |-> IF u = "u1" THEN e ELSE UsedUp]
  /\ matches = <<>>
  /\ InitCommon

\* any entitlement with a balance up to MaxBalance, no match yet
InitWallet ==
  /\ \E free \in BOOLEAN, bal \in 0..MaxBalance :
       users = [u \in Users |->
                  IF u = "u1" THEN [free_round_used |-> free, rounds_balance |-> bal]
                  ELSE UsedUp]
  /\ matches = <<>>
  /\ InitCommon

\* u1 has started one match on its free round
InitEngine ==
  /\ users = [u \in Users |-> UsedUp]
  /\ matches = << new_match_doc("u1", <<"c1", "c2">>, "A", "B", 0) >>
  /\ InitCommon

total_rounds(ms) == SumSeq([i \in 1..Len(ms) |-> Len(ms[i].rounds)])

InFlight(pcs) == Cardinality({p \in Procs : loc[p].pc \in pcs})

\* consume_round as called: the update and the two history counters
ConsumeRound(user_id) ==
  LET r == consume_round(users, user_id)
  IN /\ users' = r.users
     /\ consumeCalls' = [consumeCalls EXCEPT ![user_id] = @ + 1]
     /\ consumeOk' = [consumeOk EXCEPT ![user_id] = @ + r.modified_count]

NoRounds(op) == Resp(op, "NO_ROUNDS_AVAILABLE", 403, NoBody)

\* ------------------------------------------- handlers, one action per call
SeqCreateMatch(user_id, selected_category_ids) ==
  LET v == validate_categories(selected_category_ids)
      cs == can_start_match(users, user_id)
      doc == new_match_doc(user_id, selected_category_ids, "A", "B", 0)
  IN /\ IF v.code # "OK"
        THEN /\ resp' = v
             /\ UNCHANGED <<users, matches, consumeCalls, consumeOk, deleted_questions>>
        ELSE IF ~cs.can_start
        THEN /\ resp' = NoRounds("createMatch")
             /\ UNCHANGED <<users, matches, consumeCalls, consumeOk, deleted_questions>>
        ELSE /\ IF cs.use_free
                THEN /\ users' = use_free_round(users, user_id)
                     /\ UNCHANGED <<consumeCalls, consumeOk, deleted_questions>>
                ELSE ConsumeRound(user_id)
             /\ IF ~cs.use_free /\ ~consume_round_matches(users, user_id)
                THEN /\ resp' = NoRounds("createMatch")
                     /\ UNCHANGED matches
                ELSE /\ matches' = Append(matches, doc)
                     /\ resp' = Resp("createMatch", "OK", 200, [id |-> Len(matches) + 1])
     /\ UNCHANGED <<clock, loc, balance0, purchases, accounts, otps, deleted_questions>>

\* next_question run to its end on ms: the $push, then _ensure_usage_entry
next_question_done(ms, match_id, body) ==
  LET pushed == push_round(ms, match_id, round_entry_of(body))
      usage_list == ensure_usage_list(pushed[match_id], body.category_id, body.level,
                                      body.question_id)
  IN set_usage(pushed, match_id, usage_list)

\* the rounds u1 has asked for, one request after the other
RECURSIVE asked(_, _)
asked(ms, reqs) ==
  IF reqs = <<>> THEN ms
  ELSE LET plan == next_question_plan(ms, 1, "u1", Head(reqs)[1], Head(reqs)[2])
       IN asked(IF plan.code = "OK" THEN next_question_done(ms, 1, plan.body) ELSE ms,
                Tail(reqs))

\* u1's match with MaxRounds rounds asked for and none judged
InitJudge ==
  /\ deleted_questions = {}
  /\ users = [u \in Users |-> UsedUp]
  /\ matches = asked(<< new_match_doc("u1", <<"c1", "c2">>, "A", "B", 0) >>,
                     SubSeq(<< <<"c1", 1>>, <<"c2", 3>>, <<"c1", 1>>, <<"c1", 1>> >>,
                            1, MaxRounds))
  /\ InitCommon

SeqNextQuestion(match_id, user_id, category_id, level) ==
  LET plan == next_question_plan(matches, match_id, user_id, category_id, level)
  IN /\ IF plan.code # "OK"
        THEN UNCHANGED matches
        ELSE /\ total_rounds(matches) < MaxRounds
             /\ matches' = next_question_done(matches, match_id, plan.body)
     /\ resp' = plan
     /\ UNCHANGED <<users, clock, loc, balance0, purchases, accounts, otps, consumeCalls, consumeOk, deleted_questions>>

SeqJudgeRound(match_id, user_id, round_no, judge_selection) ==
  LET plan == judge_round_plan(matches, match_id, user_id, round_no, judge_selection)
  IN /\ matches' = IF plan.code = "OK" THEN judge_update(matches, match_id, plan.body)
                   ELSE matches
     /\ resp' = plan
     /\ UNCHANGED <<users, clock, loc, balance0, purchases, accounts, otps, consumeCalls, consumeOk, deleted_questions>>

SeqFinishMatch(match_id, user_id) ==
  LET plan == finish_match_plan(matches, match_id, user_id)
  IN /\ IF plan.code = "OK"
        THEN /\ clock' = clock + 1
             /\ matches' = finish_update(matches, match_id, clock + 1)
        ELSE UNCHANGED <<clock, matches, deleted_questions>>
     /\ resp' = plan
     /\ UNCHANGED <<users, loc, balance0, purchases, accounts, otps, consumeCalls, consumeOk, deleted_questions>>

SeqPatchTeams(match_id, user_id, req) ==
  LET plan == patch_teams_plan(matches, match_id, user_id)
      patched == patch_update(matches, match_id, req)
  IN /\ IF plan.code = "OK"
        THEN /\ matches' = patched
             /\ resp' = get_match(patched, match_id, user_id)
        ELSE /\ UNCHANGED matches
             /\ resp' = plan
     /\ UNCHANGED <<users, clock, loc, balance0, purchases, accounts, otps, consumeCalls, consumeOk, deleted_questions>>

SeqGetMatch(match_id, user_id) ==
  /\ resp' = get_match_plan(matches, match_id, user_id)
  /\ UNCHANGED <<users, matches, clock, loc, balance0, consumeCalls, consumeOk, purchases, accounts, otps, deleted_questions>>

SeqGetRoundHint(match_id, user_id, round_no) ==
  /\ resp' = get_round_hint(matches, match_id, user_id, round_no)
  /\ UNCHANGED <<users, matches, clock, loc, balance0, consumeCalls, consumeOk, purchases, accounts, otps, deleted_questions>>

SeqGetRoundAnswer(match_id, user_id, round_no) ==
  /\ resp' = get_round_answer(matches, match_id, user_id, round_no)
  /\ UNCHANGED <<users, matches, clock, loc, balance0, consumeCalls, consumeOk, purchases, accounts, otps, deleted_questions>>

SeqDeleteMatch(match_id, user_id) ==
  LET d == delete_match(matches, match_id, user_id)
  IN /\ matches' = d.matches
     /\ resp' = IF d.deleted_count > 0
                THEN Resp("deleteMatch", "OK", 204, None)
                ELSE Resp("deleteMatch", "MATCH_NOT_FOUND", 404, NoBody)
     /\ UNCHANGED <<users, clock, loc, balance0, consumeCalls, consumeOk, purchases, accounts, otps, deleted_questions>>

SeqNext ==
  \/ \E u \in Users, sel \in CreateInputs : SeqCreateMatch(u, sel)
  \/ \E i \in NextQuestionInputs : SeqNextQuestion(i[1], i[2], i[3], i[4])
  \/ \E i \in JudgeRoundInputs : SeqJudgeRound(i[1], i[2], i[3], i[4])
  \/ \E mu \in Callers : SeqFinishMatch(mu[1], mu[2])
  \/ \E mu \in Callers, req \in PatchInputs : SeqPatchTeams(mu[1], mu[2], req)

SeqSpec == InitSeq /\ [][SeqNext]_vars

\* u1's match with two rounds asked for, its status set to abandoned from
\* outside the engine (MatchResponse.status admits it, no handler writes it)
InitAbandoned ==
  /\ deleted_questions = {}
  /\ users = [u \in Users |->
                IF u = "u1" THEN [free_round_used |-> TRUE, rounds_balance |-> 1] ELSE UsedUp]
  /\ matches = << [asked(<< new_match_doc("u1", <<"c1", "c2">>, "A", "B", 0) >>,
                         << <<"c1", 1>>, <<"c2", 3>> >>)[1]
                     EXCEPT !.status = "abandoned"] >>
  /\ InitCommon

AbandonedSpec == InitAbandoned /\ [][SeqNext]_vars

\* the sequential requests together with the read and delete endpoints
AccessNext ==
  \/ \E u \in Users, sel \in CreateInputs : SeqCreateMatch(u, sel)
  \/ \E i \in NextQuestionInputs : SeqNextQuestion(i[1], i[2], i[3], i[4])
  \/ \E i \in JudgeRoundInputs : SeqJudgeRound(i[1], i[2], i[3], i[4])
  \/ \E mu \in Callers : SeqFinishMatch(mu[1], mu[2])
  \/ \E mu \in Callers, req \in PatchInputs : SeqPatchTeams(mu[1], mu[2], req)
  \/ \E mu \in Callers : SeqGetMatch(mu[1], mu[2])
  \/ \E i \in RoundInputs : SeqGetRoundHint(i[1], i[2], i[3])
  \/ \E i \in RoundInputs : SeqGetRoundAnswer(i[1], i[2], i[3])
  \/ \E mu \in Callers : SeqDeleteMatch(mu[1], mu[2])

AccessSpec == InitSeq /\ [][AccessNext]_vars

\* POST /purchases/round-pack: add_rounds with the rounds of the request
SeqPurchaseRoundPack(user_id, rounds) ==
  /\ Len(purchases) < MaxPurchases
  /\ users' = add_rounds_inc(users, user_id, rounds)
  /\ purchases' = Append(purchases, purchase_doc(user_id, rounds, None, "stub"))
  /\ resp' = Resp("purchaseRoundPack", "OK", 200, [rounds_added |-> rounds])
  /\ UNCHANGED <<matches, clock, loc, balance0, consumeCalls, consumeOk, accounts, otps, deleted_questions>>

\* can_start_match(user_id) on its own: one find_one, and the pair it returns
CanStartMatch(user_id) ==
  /\ resp' = Resp("canStartMatch", "OK", 200, can_start_match(users, user_id))
  /\ UNCHANGED <<users, matches, clock, loc, balance0, consumeCalls, consumeOk, purchases, accounts, otps, deleted_questions>>

\* createMatch and round-pack purchases, one request at a time
LedgerNext ==
  \/ \E u \in Users, sel \in CreateInputs : SeqCreateMatch(u, sel)
  \/ \E uid \in UserIdInputs : CanStartMatch(uid)
  \/ \E u \in Users, rounds \in RoundsInputs : SeqPurchaseRoundPack(u, rounds)

LedgerSpec == InitWallet /\ [][LedgerNext]_vars

\* ---------------------------- handlers, one action per database operation
\* A request that fails one of its checks after its first read changes nothing
\* in the database and is no step here; resp is not written.
Goto(p, l) == loc' = [loc EXCEPT ![p] = l]

\* next_question: find_one, the checks and pick_next_question
NextQuestionRead(p, match_id, user_id, category_id, level) ==
  LET plan == next_question_plan(matches, match_id, user_id, category_id, level)
  IN /\ loc[p].pc = "idle"
     /\ plan.code = "OK"
     /\ total_rounds(matches) + InFlight({"nq_push"}) < MaxRounds
     /\ Goto(p, [pc |-> "nq_push", match_id |-> match_id, body |-> plan.body])
     /\ UNCHANGED <<users, matches, clock, resp, balance0, purchases, accounts, otps, consumeCalls, consumeOk, deleted_questions>>

\* next_question: the $push of the round entry
NextQuestionPush(p) ==
  /\ loc[p].pc = "nq_push"
  /\ matches' = push_round(matches, loc[p].match_id, round_entry_of(loc[p].body))
  /\ Goto(p, [loc[p] EXCEPT !.pc = "nq_usage_read"])
  /\ UNCHANGED <<users, clock, resp, balance0, purchases, accounts, otps, consumeCalls, consumeOk, deleted_questions>>

\* _ensure_usage_entry: get_match_internal and the list built from it
EnsureUsageRead(p) ==
  /\ loc[p].pc = "nq_usage_read"
  /\ Goto(p, [pc |-> "nq_usage_write", match_id |-> loc[p].match_id,
              usage_list |-> ensure_usage_list(matches[loc[p].match_id],
                                               loc[p].body.category_id, loc[p].body.level,
                                               loc[p].body.question_id)])
  /\ UNCHANGED <<users, matches, clock, resp, balance0, purchases, accounts, otps, consumeCalls, consumeOk, deleted_questions>>

\* _ensure_usage_entry: the $set of progress.usage
EnsureUsageWrite(p) ==
  /\ loc[p].pc = "nq_usage_write"
  /\ matches' = set_usage(matches, loc[p].match_id, loc[p].usage_list)
  /\ Goto(p, Idle)
  /\ UNCHANGED <<users, clock, resp, balance0, purchases, accounts, otps, consumeCalls, consumeOk, deleted_questions>>

\* judge_round: find_one, the checks and the new scores
JudgeRoundRead(p, match_id, user_id, round_no, judge_selection) ==
  LET plan == judge_round_plan(matches, match_id, user_id, round_no, judge_selection)
  IN /\ loc[p].pc = "idle"
     /\ plan.code = "OK"
     /\ Goto(p, [pc |-> "jr_update", match_id |-> match_id, body |-> plan.body])
     /\ UNCHANGED <<users, matches, clock, resp, balance0, purchases, accounts, otps, consumeCalls, consumeOk, deleted_questions>>

\* judge_round: the $set of the round's result and of both scores
JudgeRoundUpdate(p) ==
  /\ loc[p].pc = "jr_update"
  /\ matches' = judge_update(matches, loc[p].match_id, loc[p].body)
  /\ Goto(p, Idle)
  /\ UNCHANGED <<users, clock, resp, balance0, purchases, accounts, otps, consumeCalls, consumeOk, deleted_questions>>

\* finish_match: find_one, the check and datetime.now()
FinishMatchRead(p, match_id, user_id) ==
  LET plan == finish_match_plan(matches, match_id, user_id)
  IN /\ loc[p].pc = "idle"
     /\ plan.code = "OK"
     /\ clock' = clock + 1
     /\ Goto(p, [pc |-> "fm_update", match_id |-> match_id, now |-> clock + 1])
     /\ UNCHANGED <<users, matches, resp, balance0, purchases, accounts, otps, consumeCalls, consumeOk, deleted_questions>>

\* finish_match: the $set of status and finished_at
FinishMatchUpdate(p) ==
  /\ loc[p].pc = "fm_update"
  /\ matches' = finish_update(matches, loc[p].match_id, loc[p].now)
  /\ Goto(p, Idle)
  /\ UNCHANGED <<users, clock, resp, balance0, purchases, accounts, otps, consumeCalls, consumeOk, deleted_questions>>

Next ==
  \/ \E p \in Procs, i \in NextQuestionInputs : NextQuestionRead(p, i[1], i[2], i[3], i[4])
  \/ \E p \in Procs : NextQuestionPush(p)
  \/ \E p \in Procs : EnsureUsageRead(p)
  \/ \E p \in Procs : EnsureUsageWrite(p)

Spec == InitEngine /\ [][Next]_vars

JudgeNext ==
  \/ \E p \in Procs, i \in JudgeRoundInputs : JudgeRoundRead(p, i[1], i[2], i[3], i[4])
  \/ \E p \in Procs : JudgeRoundUpdate(p)
  \/ \E p \in Procs, mu \in Callers : FinishMatchRead(p, mu[1], mu[2])
  \/ \E p \in Procs : FinishMatchUpdate(p)

JudgeSpec == InitJudge /\ [][JudgeNext]_vars

\* ------------------------------------------- entitlements under concurrency
\* create_match: validation and can_start_match
CreateMatchRead(p, user_id, selected_category_ids) ==
  LET v == validate_categories(selected_category_ids)
      cs == can_start_match(users, user_id)
  IN /\ loc[p].pc = "idle"
     /\ v.code = "OK"
     /\ IF cs.can_start
        THEN /\ Goto(p, [pc |-> "cm_debit", user_id |-> user_id,
                         selected_category_ids |-> selected_category_ids,
                         use_free |-> cs.use_free])
             /\ UNCHANGED resp
        ELSE /\ resp' = NoRounds("createMatch")
             /\ UNCHANGED loc
     /\ UNCHANGED <<users, matches, clock, balance0, purchases, accounts, otps, consumeCalls, consumeOk, deleted_questions>>

\* create_match: use_free_round, or consume_round which raises when it
\* modified no document
CreateMatchDebit(p) ==
  /\ loc[p].pc = "cm_debit"
  /\ IF loc[p].use_free
     THEN /\ users' = use_free_round(users, loc[p].user_id)
          /\ Goto(p, [loc[p] EXCEPT !.pc = "cm_insert"])
          /\ UNCHANGED <<consumeCalls, consumeOk, deleted_questions>>
     ELSE /\ ConsumeRound(loc[p].user_id)
          /\ IF consume_round_matches(users, loc[p].user_id)
             THEN Goto(p, [loc[p] EXCEPT !.pc = "cm_insert"])
             ELSE Goto(p, Idle)
  /\ UNCHANGED <<matches, clock, resp, balance0, purchases, accounts, otps, deleted_questions>>

\* create_match: insert_one
CreateMatchInsert(p) ==
  /\ loc[p].pc = "cm_insert"
  /\ matches' = Append(matches, new_match_doc(loc[p].user_id, loc[p].selected_category_ids,
                                              "A", "B", 0))
  /\ Goto(p, Idle)
  /\ UNCHANGED <<users, clock, resp, balance0, purchases, accounts, otps, consumeCalls, consumeOk, deleted_questions>>

\* POST /wallet/consume-round: one update_one
ConsumeRoundEndpoint(user_id) ==
  /\ consumeCalls[user_id] < MaxConsumeCalls
  /\ ConsumeRound(user_id)
  /\ resp' = IF consume_round_matches(users, user_id)
             THEN Resp("consumeRound", "OK", 200, [consumed |-> TRUE])
             ELSE NoRounds("consumeRound")
  /\ UNCHANGED <<matches, clock, loc, balance0, purchases, accounts, otps, deleted_questions>>

WalletNext ==
  \/ \E p \in Procs, u \in Users, sel \in CreateInputs : CreateMatchRead(p, u, sel)
  \/ \E p \in Procs : CreateMatchDebit(p)
  \/ \E p \in Procs : CreateMatchInsert(p)
  \/ \E u \in Users : ConsumeRoundEndpoint(u)

WalletSpec == InitWallet /\ [][WalletNext]_vars

\* ------------------------------------------------ registration, step by step
\* request_register_otp: the users.find_one
RegisterRead(p, email, password) ==
  /\ loc[p].pc = "idle"
  /\ otps.inserted + InFlight({"reg_delete", "reg_insert"}) < MaxOtps
  /\ IF find_user(accounts, lower(email))
     THEN /\ resp' = Resp("register", "USER_EXISTS", 409, NoBody)
          /\ UNCHANGED loc
     ELSE /\ Goto(p, [pc |-> "reg_delete", email |-> lower(email), password |-> password])
          /\ UNCHANGED resp
  /\ UNCHANGED <<users, matches, clock, balance0, consumeCalls, consumeOk, purchases,
                 accounts, otps, deleted_questions>>

\* request_register_otp: the delete_many
RegisterDeleteMany(p) ==
  /\ loc[p].pc = "reg_delete"
  /\ otps' = [otps EXCEPT !.docs = delete_many(@, loc[p].email, "register")]
  /\ Goto(p, [loc[p] EXCEPT !.pc = "reg_insert"])
  /\ UNCHANGED <<users, matches, clock, resp, balance0, consumeCalls, consumeOk, purchases,
                 accounts, deleted_questions>>

\* request_register_otp: the insert_one of the generated otp, and the reply
RegisterInsert(p, otp) ==
  /\ loc[p].pc = "reg_insert"
  /\ otps' = [docs |-> Append(otps.docs, otp_doc(otps.inserted + 1, loc[p].email, otp,
                                                 loc[p].password, clock)),
              inserted |-> otps.inserted + 1]
  /\ resp' = Resp("register", "OK", 200, NoBody)
  /\ Goto(p, Idle)
  /\ UNCHANGED <<users, matches, clock, balance0, consumeCalls, consumeOk, purchases,
                 accounts, deleted_questions>>

\* verify_otp_register: the users.find_one
VerifyRegisterRead(p, email, otp) ==
  /\ loc[p].pc = "idle"
  /\ IF find_user(accounts, lower(email))
     THEN /\ resp' = Resp("verifyRegister", "USER_EXISTS", 409, NoBody)
          /\ UNCHANGED loc
     ELSE /\ Goto(p, [pc |-> "vr_find", email |-> lower(email), otp |-> otp])
          /\ UNCHANGED resp
  /\ UNCHANGED <<users, matches, clock, balance0, consumeCalls, consumeOk, purchases,
                 accounts, otps, deleted_questions>>

\* verify_otp_register: otps.find_one and the checks on the document
VerifyRegisterFind(p) ==
  LET i == find_otp(otps.docs, loc[p].email, "register")
  IN /\ loc[p].pc = "vr_find"
     /\ IF i = 0
        THEN /\ resp' = Resp("verifyRegister", "INVALID_OTP", 400, NoBody)
             /\ Goto(p, Idle)
        ELSE IF clock > otps.docs[i].expires_at
        THEN /\ Goto(p, [pc |-> "vr_expired", doc |-> otps.docs[i]])
             /\ UNCHANGED resp
        ELSE IF ~otp_matches(otps.docs[i].otp, loc[p].otp)
        THEN /\ resp' = Resp("verifyRegister", "INVALID_OTP", 400, NoBody)
             /\ Goto(p, Idle)
        ELSE /\ Goto(p, [pc |-> "vr_delete", email |-> loc[p].email, doc |-> otps.docs[i]])
             /\ UNCHANGED resp
     /\ UNCHANGED <<users, matches, clock, balance0, consumeCalls, consumeOk, purchases,
                    accounts, otps, deleted_questions>>

\* verify_otp_register: delete_one of an expired document, then OTP_EXPIRED
VerifyRegisterExpired(p) ==
  /\ loc[p].pc = "vr_expired"
  /\ otps' = [otps EXCEPT !.docs = delete_one(@, loc[p].doc._id)]
  /\ resp' = Resp("verifyRegister", "OTP_EXPIRED", 400, NoBody)
  /\ Goto(p, Idle)
  /\ UNCHANGED <<users, matches, clock, balance0, consumeCalls, consumeOk, purchases,
                 accounts, deleted_questions>>

\* verify_otp_register: delete_one of the matched document
VerifyRegisterDelete(p) ==
  /\ loc[p].pc = "vr_delete"
  /\ otps' = [otps EXCEPT !.docs = delete_one(@, loc[p].doc._id)]
  /\ Goto(p, [loc[p] EXCEPT !.pc = "vr_insert"])
  /\ UNCHANGED <<users, matches, clock, resp, balance0, consumeCalls, consumeOk, purchases,
                 accounts, deleted_questions>>

\* verify_otp_register: users.insert_one under the unique index on email
VerifyRegisterInsert(p) ==
  /\ loc[p].pc = "vr_insert"
  /\ IF duplicate_key(accounts, loc[p].email)
     THEN /\ resp' = Resp("verifyRegister", "DuplicateKeyError", 500, NoBody)
          /\ UNCHANGED accounts
     ELSE /\ accounts' = Append(accounts, user_doc(loc[p].email, loc[p].doc.password_hash))
          /\ resp' = Resp("verifyRegister", "OK", 200, NoBody)
  /\ Goto(p, Idle)
  /\ UNCHANGED <<users, matches, clock, balance0, consumeCalls, consumeOk, purchases, otps, deleted_questions>>

\* datetime.now() moves on
Tick ==
  /\ clock < MaxTime
  /\ clock' = clock + 1
  /\ UNCHANGED <<users, matches, loc, resp, balance0, consumeCalls, consumeOk, purchases,
                 accounts, otps, deleted_questions>>

RegisterNext ==
  \/ \E p \in Procs, email \in EmailInputs, pw \in PasswordInputs : RegisterRead(p, email, pw)
  \/ \E p \in Procs : RegisterDeleteMany(p)
  \/ \E p \in Procs, otp \in OtpValues : RegisterInsert(p, otp)
  \/ \E p \in Procs, email \in EmailInputs, otp \in OtpValues : VerifyRegisterRead(p, email, otp)
  \/ \E p \in Procs : VerifyRegisterFind(p)
  \/ \E p \in Procs : VerifyRegisterExpired(p)
  \/ \E p \in Procs : VerifyRegisterDelete(p)
  \/ \E p \in Procs : VerifyRegisterInsert(p)
  \/ Tick

\* no account and no pending otp
InitRegister ==
  /\ users = [u \in Users |-> UsedUp]
  /\ matches = <<>>
  /\ InitCommon

RegisterSpec == InitRegister /\ [][RegisterNext]_vars

\* pick_next_question called on the question pool
PickNextQuestion(category_id, level, used_question_ids) ==
  /\ resp' = Resp("pickNext", "OK", 200,
                  [ category_id |-> category_id,
                    level |-> level,
                    used_question_ids |-> used_question_ids,
                    question |-> pick_next_question(category_id, level, used_question_ids) ])
  /\ UNCHANGED <<users, matches, clock, loc, balance0, consumeCalls, consumeOk, purchases,
                 accounts, otps, deleted_questions>>

PickNext ==
  \E c \in CategoryIds, l \in Levels, used \in ExcludedInputs : PickNextQuestion(c, l, used)

PickSpec == InitSeq /\ [][PickNext]_vars

\* POST /matches: the request model, then create_match
PostMatches(user_id, selected_category_ids) ==
  IF CreateMatchRequest_valid(selected_category_ids)
  THEN SeqCreateMatch(user_id, selected_category_ids)
  ELSE /\ resp' = Resp("createMatch", "VALIDATION_ERROR", 422, NoBody)
       /\ UNCHANGED <<users, matches, clock, loc, balance0, consumeCalls, consumeOk,
                      purchases, accounts, otps, deleted_questions>>

CategoryNext ==
  \/ \E u \in Users, sel \in CategoryListInputs : PostMatches(u, sel)
  \/ \E i \in NextQuestionInputs : SeqNextQuestion(i[1], i[2], i[3], i[4])
  \/ \E i \in JudgeRoundInputs : SeqJudgeRound(i[1], i[2], i[3], i[4])
  \/ \E mu \in Callers : SeqFinishMatch(mu[1], mu[2])
  \/ \E mu \in Callers, req \in PatchInputs : SeqPatchTeams(mu[1], mu[2], req)

CategorySpec == InitSeq /\ [][CategoryNext]_vars

\* u1 and u2 as registered or with the free round spent: no rounds bought,
\* no purchase on record
InitLedger ==
  /\ \E f1, f2 \in BOOLEAN :
       users = [u \in Users |->
                  [free_round_used |-> IF u = "u1" THEN f1 ELSE f2, rounds_balance |-> 0]]
  /\ matches = <<>>
  /\ InitCommon

SeqDeletePurchase(purchase_id, user_id) ==
  LET plan == delete_purchase_plan(purchases, purchase_id, user_id)
  IN /\ purchases' = IF plan.code = "OK" THEN delete_purchase(purchases, purchase_id)
                     ELSE purchases
     /\ resp' = plan
     /\ UNCHANGED <<users, matches, clock, loc, balance0, consumeCalls, consumeOk, accounts, otps, deleted_questions>>

\* the wallet and purchase endpoints and createMatch, one request at a time
PurchaseNext ==
  \/ \E u \in Users, rounds \in RoundsInputs : SeqPurchaseRoundPack(u, rounds)
  \/ \E u \in Users : ConsumeRoundEndpoint(u)
  \/ \E u \in Users, sel \in CreateInputs : SeqCreateMatch(u, sel)
  \/ \E id \in PurchaseIdInputs, u \in Users : SeqDeletePurchase(id, u)

PurchaseSpec == InitLedger /\ [][PurchaseNext]_vars

\* u1's active match with two rounds asked for: questions 2 and 6
InitAsked ==
  /\ deleted_questions = {}
  /\ users = [u \in Users |-> UsedUp]
  /\ matches = asked(<< new_match_doc("u1", <<"c1", "c2">>, "A", "B", 0) >>,
                     << <<"c1", 1>>, <<"c2", 3>> >>)
  /\ InitCommon

\* DELETE /admin/questions/{question_id}
SeqDeleteQuestion(question_id) ==
  LET d == delete_question(question_id)
  IN /\ deleted_questions' = d.deleted_questions
     /\ resp' = IF d.deleted_count > 0
                THEN Resp("deleteQuestion", "OK", 200, [deleted |-> TRUE])
                ELSE Resp("deleteQuestion", "QUESTION_NOT_FOUND", 404, NoBody)
     /\ UNCHANGED <<users, matches, clock, loc, balance0, consumeCalls, consumeOk, purchases,
                    accounts, otps>>

\* the hint and answer endpoints between the requests of a match and the
\* deletion of questions, one request at a time
HintNext ==
  \/ \E i \in RoundInputs : SeqGetRoundHint(i[1], i[2], i[3])
  \/ \E i \in RoundInputs : SeqGetRoundAnswer(i[1], i[2], i[3])
  \/ \E q \in DeleteQuestionInputs : SeqDeleteQuestion(q)
  \/ \E i \in NextQuestionInputs : SeqNextQuestion(i[1], i[2], i[3], i[4])
  \/ \E i \in JudgeRoundInputs : SeqJudgeRound(i[1], i[2], i[3], i[4])
  \/ \E mu \in Callers : SeqFinishMatch(mu[1], mu[2])

HintSpec == InitAsked /\ [][HintNext]_vars

\* ------------------------------------------------- login by otp, step by step
\* request_otp(email, "login"): the users.find_one, by the email as sent
LoginRequestRead(p, email) ==
  /\ loc[p].pc = "idle"
  /\ otps.inserted + InFlight({"lr_delete", "lr_insert"}) < MaxOtps
  /\ IF ~find_user(accounts, email)
     THEN /\ resp' = Resp("requestOtp", "USER_NOT_FOUND", 404, NoBody)
          /\ UNCHANGED loc
     ELSE /\ Goto(p, [pc |-> "lr_delete", email |-> lower(email)])
          /\ UNCHANGED resp
  /\ UNCHANGED <<users, matches, clock, balance0, consumeCalls, consumeOk, purchases,
                 accounts, otps, deleted_questions>>

\* request_otp: the delete_many
LoginRequestDeleteMany(p) ==
  /\ loc[p].pc = "lr_delete"
  /\ otps' = [otps EXCEPT !.docs = delete_many(@, loc[p].email, "login")]
  /\ Goto(p, [loc[p] EXCEPT !.pc = "lr_insert"])
  /\ UNCHANGED <<users, matches, clock, resp, balance0, consumeCalls, consumeOk, purchases,
                 accounts, deleted_questions>>

\* request_otp: the insert_one of the generated otp, and the reply
LoginRequestInsert(p, otp) ==
  /\ loc[p].pc = "lr_insert"
  /\ otps' = [docs |-> Append(otps.docs, login_otp_doc(otps.inserted + 1, loc[p].email, otp, clock)),
              inserted |-> otps.inserted + 1]
  /\ resp' = Resp("requestOtp", "OK", 200, NoBody)
  /\ Goto(p, Idle)
  /\ UNCHANGED <<users, matches, clock, balance0, consumeCalls, consumeOk, purchases,
                 accounts, deleted_questions>>

\* verify_otp_login, _find_valid_otp: otps.find_one and the checks on the
\* document
VerifyLoginFind(p, email, otp) ==
  LET i == find_otp(otps.docs, lower(email), "login")
  IN /\ loc[p].pc = "idle"
     /\ IF i = 0
        THEN /\ resp' = Resp("verifyLogin", "INVALID_OTP", 400, NoBody)
             /\ UNCHANGED loc
        ELSE IF clock > otps.docs[i].expires_at
        THEN /\ Goto(p, [pc |-> "vl_expired", doc |-> otps.docs[i]])
             /\ UNCHANGED resp
        ELSE IF ~otp_matches(otps.docs[i].otp, otp)
        THEN /\ resp' = Resp("verifyLogin", "INVALID_OTP", 400, NoBody)
             /\ UNCHANGED loc
        ELSE /\ Goto(p, [pc |-> "vl_delete", email |-> lower(email), doc |-> otps.docs[i]])
             /\ UNCHANGED resp
     /\ UNCHANGED <<users, matches, clock, balance0, consumeCalls, consumeOk, purchases,
                    accounts, otps, deleted_questions>>

\* _find_valid_otp: delete_one of the expired document
VerifyLoginExpired(p) ==
  /\ loc[p].pc = "vl_expired"
  /\ otps' = [otps EXCEPT !.docs = delete_one(@, loc[p].doc._id)]
  /\ resp' = Resp("verifyLogin", "OTP_EXPIRED", 400, NoBody)
  /\ Goto(p, Idle)
  /\ UNCHANGED <<users, matches, clock, balance0, consumeCalls, consumeOk, purchases,
                 accounts, deleted_questions>>

\* _find_valid_otp: delete_one of the matched document
VerifyLoginDelete(p) ==
  /\ loc[p].pc = "vl_delete"
  /\ otps' = [otps EXCEPT !.docs = delete_one(@, loc[p].doc._id)]
  /\ Goto(p, [loc[p] EXCEPT !.pc = "vl_user"])
  /\ UNCHANGED <<users, matches, clock, resp, balance0, consumeCalls, consumeOk, purchases,
                 accounts, deleted_questions>>

\* verify_otp_login: users.find_one and the token; the body names the request
\* and the otp document it redeemed
VerifyLoginUser(p) ==
  /\ loc[p].pc = "vl_user"
  /\ resp' = IF find_user(accounts, loc[p].email)
             THEN Resp("verifyLogin", "OK", 200,
                       [request |-> p, email |-> loc[p].email, otp |-> loc[p].doc])
             ELSE Resp("verifyLogin", "USER_NOT_FOUND", 404, NoBody)
  /\ Goto(p, Idle)
  /\ UNCHANGED <<users, matches, clock, balance0, consumeCalls, consumeOk, purchases,
                 accounts, otps, deleted_questions>>

LoginNext ==
  \/ \E p \in Procs, email \in EmailInputs : LoginRequestRead(p, email)
  \/ \E p \in Procs : LoginRequestDeleteMany(p)
  \/ \E p \in Procs, otp \in OtpValues : LoginRequestInsert(p, otp)
  \/ \E p \in Procs, email \in EmailInputs, otp \in OtpValues : VerifyLoginFind(p, email, otp)
  \/ \E p \in Procs : VerifyLoginExpired(p)
  \/ \E p \in Procs : VerifyLoginDelete(p)
  \/ \E p \in Procs : VerifyLoginUser(p)
  \/ Tick

\* ann@x is registered, no otp is pending
InitLogin ==
  /\ users = [u \in Users |-> UsedUp]
  /\ matches = <<>>
  /\ balance0 = [u \in Users |-> 0]
  /\ clock = 0
  /\ loc = [p \in Procs |-> Idle]
  /\ resp = Resp("none", "OK", 0, NoBody)
  /\ consumeCalls = [u \in Users |-> 0]
  /\ consumeOk = [u \in Users |-> 0]
  /\ purchases = <<>>
  /\ accounts = << user_doc("ann@x", get_password_hash("pw1")) >>
  /\ otps = [docs |-> <<>>, inserted |-> 0]
  /\ deleted_questions = {}

LoginSpec == InitLogin /\ [][LoginNext]_vars

\* ------------------------------------------------------------ properties
judged_points(rounds_list) ==
  SumSeq([i \in 1..Len(rounds_list) |->
            IF rounds_list[i].judge_selection # None THEN rounds_list[i].scored_points ELSE 0])

rounds_for(match_doc, category_id, level) ==
  Cardinality({i \in 1..Len(match_doc.rounds) :
                 /\ match_doc.rounds[i].category_id = category_id
                 /\ match_doc.rounds[i].level = level})

active_questions(category_id, level) ==
  Cardinality({i \in 1..Len(Questions) :
                 /\ Questions[i].category_id = category_id
                 /\ Questions[i].level = level
                 /\ Questions[i].status = "active"})

\* C1: with requests running one at a time, the two team scores of every match
\* add up to the scored_points of its judged rounds, in every reachable state.
ScoresAreJudgedPoints ==
  \A m \in DOMAIN matches :
    matches[m].teams.A.score + matches[m].teams.B.score = judged_points(matches[m].rounds)

\* both teams have scored, and a judgeRound request has just been refused
ScoresAreJudgedPointsWitness ==
  /\ resp.code = "ROUND_ALREADY_JUDGED"
  /\ \E m \in DOMAIN matches :
       /\ matches[m].teams.A.score > 0
       /\ matches[m].teams.B.score > 0

\* C2: for every match and (category, level) pair, used_question_ids holds at
\* most questions_per_level ids, however nextQuestion requests interleave.
UsageWithinQuota ==
  \A m \in DOMAIN matches :
    \A i \in 1..Len(matches[m].progress.usage) :
      Len(matches[m].progress.usage[i].used_question_ids)
        <= get_questions_per_level(matches[m], matches[m].progress.usage[i].level)

\* a pair's usage entry is full while overlapping requests have stored more
\* rounds for the pair than the quota
UsageWithinQuotaWitness ==
  \E m \in DOMAIN matches :
    \E i \in 1..Len(matches[m].progress.usage) :
      LET e == matches[m].progress.usage[i]
      IN /\ Len(e.used_question_ids) = get_questions_per_level(matches[m], e.level)
         /\ rounds_for(matches[m], e.category_id, e.level) > Len(e.used_question_ids)

\* C3: however nextQuestion requests interleave, the rounds stored for a
\* (category, level) pair never outnumber the level's questions_per_level.
RoundsWithinQuota ==
  \A m \in DOMAIN matches :
    \A c \in CategoryIds, l \in Levels :
      rounds_for(matches[m], c, l) <= get_questions_per_level(matches[m], l)

\* C4: however nextQuestion requests interleave, the stored rounds are numbered
\* 1..n in append order, so no two of them share a round_no.
RoundNosAreSequence ==
  \A m \in DOMAIN matches :
    \A i \in 1..Len(matches[m].rounds) : matches[m].rounds[i].round_no = i

\* C5: a judged round is never judged again: once judge_selection is set, the
\* round's judge_selection, scored_team and scored_points stay as they are,
\* also when two judgeRound requests for the round overlap.
JudgedRoundNeverChanges ==
  [][\A m \in DOMAIN matches :
       \A i \in 1..Len(matches[m].rounds) :
         matches[m].rounds[i].judge_selection # None
           => matches'[m].rounds[i] = matches[m].rounds[i]]_vars

\* C6: without addRounds, of the consume_round calls made for a user so far
\* (directly or by createMatch, overlapping or not) exactly
\* min(calls, initial balance) succeeded, each of the others was refused with
\* NO_ROUNDS_AVAILABLE, and rounds_balance never goes below 0.
ConsumeSucceedsMinTimes ==
  /\ \A u \in Users :
       /\ users[u].rounds_balance >= 0
       /\ consumeOk[u] = Min2(consumeCalls[u], balance0[u])
       /\ users[u].rounds_balance = balance0[u] - consumeOk[u]
  /\ resp.op = "consumeRound" /\ resp.code # "OK"
       => resp.code = "NO_ROUNDS_AVAILABLE" /\ resp.status_code = 403

\* u1 started with a positive balance, more calls were made than it had
\* rounds, the last of them by a createMatch request, and one was refused
ConsumeSucceedsMinTimesWitness ==
  /\ balance0["u1"] > 0
  /\ consumeCalls["u1"] > MaxConsumeCalls
  /\ consumeCalls["u1"] > balance0["u1"]
  /\ resp.code = "NO_ROUNDS_AVAILABLE"
  /\ matches # <<>>

\* C7: no question_id appears in two rounds of one match, however
\* nextQuestion requests interleave over the fixed question pool.
NoQuestionServedTwice ==
  \A m \in DOMAIN matches :
    \A i, j \in 1..Len(matches[m].rounds) :
      i # j => matches[m].rounds[i].question_id # matches[m].rounds[j].question_id

\* (resp'.op = ... in the three step properties below is implied by the handler's
\* action and only spares evaluating it on the steps of other handlers.)

\* C8: on an active match, for a pair with at least questions_per_level active
\* questions and questions_per_level rounds already issued, a nextQuestion
\* request for the pair is refused with LEVEL_QUOTA_EXCEEDED (409) whose
\* details carry the quota, and rounds and usage stay as they are.
QuotaExceededAfterQuota ==
  [][\A m \in MatchIds, u \in Users, c \in CategoryInputs, l \in Levels :
       ( /\ resp'.op = "nextQuestion"
         /\ owned_match(matches, m, u)
         /\ matches[m].status = "active"
         /\ active_questions(c, l) >= get_questions_per_level(matches[m], l)
         /\ rounds_for(matches[m], c, l) >= get_questions_per_level(matches[m], l)
         /\ SeqNextQuestion(m, u, c, l) )
       => /\ resp'.code = "LEVEL_QUOTA_EXCEEDED"
          /\ resp'.status_code = 409
          /\ resp'.body.max_per_level = get_questions_per_level(matches[m], l)
          /\ matches'[m].rounds = matches[m].rounds
          /\ matches'[m].progress.usage = matches[m].progress.usage]_vars

\* a request was refused for a full pair after a round of another pair
QuotaExceededAfterQuotaWitness ==
  /\ resp.code = "LEVEL_QUOTA_EXCEEDED"
  /\ resp.body.max_per_level = DEFAULT_QUESTIONS_PER_LEVEL
  /\ \E m \in DOMAIN matches :
       /\ rounds_for(matches[m], resp.body.category_id, resp.body.level)
            = DEFAULT_QUESTIONS_PER_LEVEL
       /\ Len(matches[m].rounds) > DEFAULT_QUESTIONS_PER_LEVEL

\* C9 as stated: a judgeRound request for a round that is already judged is
\* refused with ROUND_ALREADY_JUDGED (409) and changes nothing.
RejudgeAlwaysAlreadyJudged ==
  [][\A m \in MatchIds, u \in Users, r \in RoundNoInputs, s \in JudgeSelection :
       ( /\ resp'.op = "judgeRound"
         /\ owned_match(matches, m, u)
         /\ find_round(matches[m], r) # 0
         /\ matches[m].rounds[find_round(matches[m], r)].judge_selection # None
         /\ SeqJudgeRound(m, u, r, s) )
       => /\ resp'.code = "ROUND_ALREADY_JUDGED"
          /\ resp'.status_code = 409
          /\ matches' = matches]_vars

\* C9: while the match is active, a judgeRound request for a round that is
\* already judged is refused with ROUND_ALREADY_JUDGED (409); on any match it
\* is refused and changes nothing.
RejudgeRejected ==
  [][\A m \in MatchIds, u \in Users, r \in RoundNoInputs, s \in JudgeSelection :
       ( /\ resp'.op = "judgeRound"
         /\ owned_match(matches, m, u)
         /\ find_round(matches[m], r) # 0
         /\ matches[m].rounds[find_round(matches[m], r)].judge_selection # None
         /\ SeqJudgeRound(m, u, r, s) )
       => /\ resp'.code # "OK"
          /\ matches' = matches
          /\ matches[m].status = "active"
               => resp'.code = "ROUND_ALREADY_JUDGED" /\ resp'.status_code = 409]_vars

\* a second judgment of a round that scored has just been refused
RejudgeRejectedWitness ==
  /\ resp.code = "ROUND_ALREADY_JUDGED"
  /\ resp.status_code = 409
  /\ \E m \in DOMAIN matches :
       /\ matches[m].status = "active"
       /\ find_round(matches[m], resp.body.round_no) # 0
       /\ matches[m].rounds[find_round(matches[m], resp.body.round_no)].scored_points > 0

\* C10: a finishMatch request on a finished match is refused with
\* MATCH_ALREADY_FINISHED and leaves the match (status, finished_at, scores,
\* rounds) as it is.
RefinishRejected ==
  [][\A m \in MatchIds, u \in Users :
       ( /\ resp'.op = "finishMatch"
         /\ owned_match(matches, m, u)
         /\ matches[m].status = "finished"
         /\ SeqFinishMatch(m, u) )
       => /\ resp'.code = "MATCH_ALREADY_FINISHED"
          /\ matches' = matches
          /\ clock' = clock]_vars

\* a finished match with rounds and a score, and finishMatch just refused
RefinishRejectedWitness ==
  /\ resp.code = "MATCH_ALREADY_FINISHED"
  /\ \E m \in DOMAIN matches :
       /\ matches[m].status = "finished"
       /\ matches[m].finished_at # NoTime
       /\ matches[m].rounds # <<>>
       /\ matches[m].teams.A.score > 0

\* C11: with nextQuestion requests running one at a time, the stored rounds of
\* every match are numbered 1, 2, ..., n in append order: a successful request
\* appends one round and returns the previous round count plus one, a failed
\* request leaves the rounds as they are.
SeqRoundNosCount ==
  [][/\ \A m \in DOMAIN matches' :
          \A i \in 1..Len(matches'[m].rounds) : matches'[m].rounds[i].round_no = i
     /\ \A i \in NextQuestionInputs :
          (resp'.op = "nextQuestion" /\ SeqNextQuestion(i[1], i[2], i[3], i[4]))
            => IF resp'.code = "OK"
               THEN /\ resp'.body.round_no = Len(matches[i[1]].rounds) + 1
                    /\ Len(matches'[i[1]].rounds) = Len(matches[i[1]].rounds) + 1
                    /\ SubSeq(matches'[i[1]].rounds, 1, Len(matches[i[1]].rounds))
                         = matches[i[1]].rounds
               ELSE matches' = matches]_vars

\* the last request was served as round 3 of a match with rounds of two pairs
SeqRoundNosCountWitness ==
  /\ resp.op = "nextQuestion"
  /\ resp.code = "OK"
  /\ resp.body.round_no = 3
  /\ \E m \in DOMAIN matches :
       /\ Len(matches[m].rounds) = 3
       /\ matches[m].rounds[1].category_id # matches[m].rounds[2].category_id

\* C12: once a match is finished, nextQuestion, judgeRound and patchTeams by
\* its owner are refused with MATCH_NOT_ACTIVE and leave the match (rounds,
\* usage, names, avatars, scores) as it is, and no step takes a match from
\* finished back to another status.
FinishedMatchIsClosed ==
  [][/\ \A m \in DOMAIN matches :
          (matches[m].status = "finished" /\ match_exists(matches', m))
            => matches'[m].status = "finished"
     /\ \A i \in NextQuestionInputs :
          ( /\ resp'.op = "nextQuestion"
            /\ owned_match(matches, i[1], i[2])
            /\ matches[i[1]].status = "finished"
            /\ SeqNextQuestion(i[1], i[2], i[3], i[4]) )
          => resp'.code = "MATCH_NOT_ACTIVE" /\ matches' = matches
     /\ \A i \in JudgeRoundInputs :
          ( /\ resp'.op = "judgeRound"
            /\ owned_match(matches, i[1], i[2])
            /\ matches[i[1]].status = "finished"
            /\ SeqJudgeRound(i[1], i[2], i[3], i[4]) )
          => resp'.code = "MATCH_NOT_ACTIVE" /\ matches' = matches
     /\ \A mu \in Callers, req \in PatchInputs :
          ( /\ resp'.op = "patchTeams"
            /\ owned_match(matches, mu[1], mu[2])
            /\ matches[mu[1]].status = "finished"
            /\ SeqPatchTeams(mu[1], mu[2], req) )
          => resp'.code = "MATCH_NOT_ACTIVE" /\ matches' = matches]_vars

\* patchTeams has just been refused on a finished match that has a round
\* nobody judged
FinishedMatchIsClosedWitness ==
  /\ resp.op = "patchTeams"
  /\ resp.code = "MATCH_NOT_ACTIVE"
  /\ resp.status_code = 400
  /\ \E m \in DOMAIN matches :
       /\ matches[m].status = "finished"
       /\ \E i \in 1..Len(matches[m].rounds) : matches[m].rounds[i].judge_selection = None

matches_of(ms, user_id) ==
  Cardinality({m \in DOMAIN ms : ms[m].created_by_user_id = user_id})

purchases_of(ps, user_id) ==
  Cardinality({i \in DOMAIN ps : ps[i].user_id = user_id})

\* C13: with createMatch requests running one at a time, a user who started
\* with no rounds and has bought none has at most one match, started on the
\* free round; a valid createMatch uses the free round when it is unused
\* (free_round_used becomes true, the balance stays), is refused with
\* NO_ROUNDS_AVAILABLE and stores no match when the free round is used and the
\* balance is not positive, and otherwise stores one match and takes exactly 1
\* off rounds_balance.
OneFreeMatchThenPaid ==
  [][/\ \A u \in Users :
          (balance0[u] = 0 /\ purchases_of(purchases', u) = 0)
            => /\ matches_of(matches', u) <= 1
               /\ matches_of(matches', u) = 1 => users'[u].free_round_used
     /\ \A u \in Users, sel \in CreateInputs :
          ( /\ resp'.op = "createMatch"
            /\ validate_categories(sel).code = "OK"
            /\ SeqCreateMatch(u, sel) )
          => IF ~users[u].free_round_used
             THEN /\ resp'.code = "OK"
                  /\ Len(matches') = Len(matches) + 1
                  /\ matches'[Len(matches')].created_by_user_id = u
                  /\ users' = [users EXCEPT ![u].free_round_used = TRUE]
             ELSE IF users[u].rounds_balance <= 0
             THEN /\ resp'.code = "NO_ROUNDS_AVAILABLE"
                  /\ resp'.status_code = 403
                  /\ matches' = matches
                  /\ users' = users
             ELSE /\ resp'.code = "OK"
                  /\ Len(matches') = Len(matches) + 1
                  /\ matches'[Len(matches')].created_by_user_id = u
                  /\ users' = [users EXCEPT ![u].rounds_balance = @ - 1]]_vars

\* u1 started without rounds, used its free round, was refused or not, bought
\* rounds, and has just started a second match on a paid round
OneFreeMatchThenPaidWitness ==
  /\ balance0["u1"] = 0
  /\ purchases_of(purchases, "u1") > 0
  /\ matches_of(matches, "u1") >= 2
  /\ consumeOk["u1"] >= 1
  /\ resp.op = "createMatch"
  /\ resp.code = "OK"

\* C14: can_start_match answers can_start = true exactly when the user record
\* exists and the free round is unused or rounds_balance > 0, and use_free =
\* true exactly when the record exists and the free round is unused, whatever
\* the balance; for a missing user it answers (false, false); it changes
\* nothing.
CanStartMatchAnswer ==
  [][\A uid \in UserIdInputs :
       (resp'.op = "canStartMatch" /\ CanStartMatch(uid))
         => /\ resp'.body.can_start
                 = ( /\ uid \in DOMAIN users
                     /\ (~users[uid].free_round_used \/ users[uid].rounds_balance > 0) )
            /\ resp'.body.use_free
                 = (uid \in DOMAIN users /\ ~users[uid].free_round_used)
            /\ uid \notin DOMAIN users
                 => resp'.body = [can_start |-> FALSE, use_free |-> FALSE]
            /\ UNCHANGED <<users, matches, purchases, accounts, otps, deleted_questions>>]_vars

\* the answer is the free round although u1, the only user with an unused
\* free round, also has paid rounds
CanStartMatchAnswerWitness ==
  /\ resp.op = "canStartMatch"
  /\ resp.body = [can_start |-> TRUE, use_free |-> TRUE]
  /\ ~users["u1"].free_round_used
  /\ users["u1"].rounds_balance > 0
  /\ users["u2"].free_round_used

\* C15 as stated: on a match the caller owns, a nextQuestion request with a
\* category id that is not among the match's selected_category_ids is refused
\* with INVALID_CATEGORIES and leaves rounds and usage as they are.
UnselectedCategoryAlwaysInvalid ==
  [][\A i \in NextQuestionInputs :
       ( /\ resp'.op = "nextQuestion"
         /\ owned_match(matches, i[1], i[2])
         /\ i[3] \notin Range(matches[i[1]].selected_category_ids)
         /\ SeqNextQuestion(i[1], i[2], i[3], i[4]) )
       => /\ resp'.code = "INVALID_CATEGORIES"
          /\ resp'.status_code = 400
          /\ matches' = matches]_vars

\* C15: on a match the caller owns, a nextQuestion request with a category id
\* that is not among the match's selected_category_ids is refused and leaves
\* rounds and usage as they are; while the match is active the refusal is
\* INVALID_CATEGORIES (400), also for an active category with unused questions
\* and for a malformed id.
UnselectedCategoryRejected ==
  [][\A i \in NextQuestionInputs :
       ( /\ resp'.op = "nextQuestion"
         /\ owned_match(matches, i[1], i[2])
         /\ i[3] \notin Range(matches[i[1]].selected_category_ids)
         /\ SeqNextQuestion(i[1], i[2], i[3], i[4]) )
       => /\ resp'.code # "OK"
          /\ matches' = matches
          /\ matches[i[1]].status = "active"
               => resp'.code = "INVALID_CATEGORIES" /\ resp'.status_code = 400]_vars

\* a request for c3, an active category with an unused level-1 question, has
\* just been refused on an active match that has rounds
UnselectedCategoryRejectedWitness ==
  /\ resp.op = "nextQuestion"
  /\ resp.code = "INVALID_CATEGORIES"
  /\ resp.body.category_id = "c3"
  /\ Categories["c3"]
  /\ pick_next_question("c3", 1, <<>>) # NoQuestion
  /\ \E m \in DOMAIN matches :
       /\ matches[m].status = "active"
       /\ matches[m].rounds # <<>>
       /\ "c3" \notin Range(matches[m].selected_category_ids)

\* C16: every match operation (get, nextQuestion, getRoundHint,
\* getRoundAnswer, judgeRound, finishMatch, patchTeams, delete) called on a
\* stored match by a user who is not its owner answers MATCH_NOT_FOUND (404),
\* exactly the response the same call gives for a match id that is not
\* stored, and changes neither the matches nor any user's entitlement.
NonOwner(match_id, user_id) ==
  match_exists(matches, match_id) /\ matches[match_id].created_by_user_id # user_id

Missing == Len(matches) + 1

NotFoundUntouched(op) ==
  /\ resp' = Resp(op, "MATCH_NOT_FOUND", 404, NoBody)
  /\ matches' = matches
  /\ users' = users

NonOwnerGetsNotFound ==
  [][/\ \A mu \in Callers :
          NonOwner(mu[1], mu[2])
            => /\ (resp'.op = "getMatch" /\ SeqGetMatch(mu[1], mu[2]))
                    => /\ NotFoundUntouched("getMatch")
                       /\ resp' = get_match_plan(matches, Missing, mu[2])
               /\ (resp'.op = "deleteMatch" /\ SeqDeleteMatch(mu[1], mu[2]))
                    => /\ NotFoundUntouched("deleteMatch")
                       /\ delete_match(matches, Missing, mu[2]).deleted_count = 0
               /\ (resp'.op = "finishMatch" /\ SeqFinishMatch(mu[1], mu[2]))
                    => /\ NotFoundUntouched("finishMatch")
                       /\ resp' = finish_match_plan(matches, Missing, mu[2])
               /\ \A req \in PatchInputs :
                    (resp'.op = "patchTeams" /\ SeqPatchTeams(mu[1], mu[2], req))
                      => /\ NotFoundUntouched("patchTeams")
                         /\ resp' = patch_teams_plan(matches, Missing, mu[2])
     /\ \A i \in RoundInputs :
          NonOwner(i[1], i[2])
            => /\ (resp'.op = "getRoundHint" /\ SeqGetRoundHint(i[1], i[2], i[3]))
                    => /\ NotFoundUntouched("getRoundHint")
                       /\ resp' = get_round_hint(matches, Missing, i[2], i[3])
               /\ (resp'.op = "getRoundAnswer" /\ SeqGetRoundAnswer(i[1], i[2], i[3]))
                    => /\ NotFoundUntouched("getRoundAnswer")
                       /\ resp' = get_round_answer(matches, Missing, i[2], i[3])
     /\ \A i \in NextQuestionInputs :
          ( /\ resp'.op = "nextQuestion"
            /\ NonOwner(i[1], i[2])
            /\ SeqNextQuestion(i[1], i[2], i[3], i[4]) )
            => /\ NotFoundUntouched("nextQuestion")
               /\ resp' = next_question_plan(matches, Missing, i[2], i[3], i[4])
     /\ \A i \in JudgeRoundInputs :
          ( /\ resp'.op = "judgeRound"
            /\ NonOwner(i[1], i[2])
            /\ SeqJudgeRound(i[1], i[2], i[3], i[4]) )
            => /\ NotFoundUntouched("judgeRound")
               /\ resp' = judge_round_plan(matches, Missing, i[2], i[3], i[4])
    ]_vars

\* a delete has been answered MATCH_NOT_FOUND while u1's match, with a scored
\* round, is still stored
NonOwnerGetsNotFoundWitness ==
  /\ resp.op = "deleteMatch"
  /\ resp.code = "MATCH_NOT_FOUND"
  /\ owned_match(matches, 1, "u1")
  /\ Len(matches[1].rounds) > 0
  /\ matches[1].teams.A.score > 0

\* C17: a successful finishMatch reports winner.result TEAM_A exactly when the
\* stored score of team A exceeds that of team B, TEAM_B exactly when B's
\* exceeds A's and DRAW exactly when they are equal (a match without rounds
\* included); winner.name is null exactly on DRAW and is otherwise the stored
\* display name of the winning team.
WinnerFollowsScores ==
  [][\A mu \in Callers :
       ( /\ resp'.op = "finishMatch"
         /\ resp'.code = "OK"
         /\ SeqFinishMatch(mu[1], mu[2]) )
       => LET A == matches[mu[1]].teams.A
              B == matches[mu[1]].teams.B
              w == resp'.body
          IN /\ (w.winner_result = "TEAM_A") <=> (A.score > B.score)
             /\ (w.winner_result = "TEAM_B") <=> (B.score > A.score)
             /\ (w.winner_result = "DRAW") <=> (A.score = B.score)
             /\ (w.winner_name = None) <=> (w.winner_result = "DRAW")
             /\ w.winner_result = "TEAM_A" => w.winner_name = A.name
             /\ w.winner_result = "TEAM_B" => w.winner_name = B.name
             /\ matches[mu[1]].rounds = <<>> => w.winner_result = "DRAW"]_vars

\* a match finished as a draw with both teams having scored
WinnerFollowsScoresWitness ==
  /\ resp.op = "finishMatch"
  /\ resp.code = "OK"
  /\ resp.body.winner_result = "DRAW"
  /\ resp.body.winner_name = None
  /\ resp.body.teamA > 0
  /\ resp.body.teamA = resp.body.teamB

\* C18: a successful finishMatch returns the stored totals of both teams as
\* scores, the numbers of rounds judged TEAM_A, TEAM_B and NO_ONE as
\* teamA_correct, teamB_correct and no_one, and the number of rounds of the
\* match, judged or not, as total_rounds; the three counts add up to at most
\* total_rounds, and to exactly total_rounds iff every round was judged.
judged_as(match_doc, sel) ==
  {i \in DOMAIN match_doc.rounds : match_doc.rounds[i].judge_selection = sel}

FinishSummaryCounts ==
  [][\A mu \in Callers :
       ( /\ resp'.op = "finishMatch"
         /\ resp'.code = "OK"
         /\ SeqFinishMatch(mu[1], mu[2]) )
       => LET match_doc == matches[mu[1]]
              s == resp'.body
              judged == s.teamA_correct + s.teamB_correct + s.no_one
          IN /\ s.teamA = match_doc.teams.A.score
             /\ s.teamB = match_doc.teams.B.score
             /\ matches'[mu[1]].teams = match_doc.teams
             /\ s.teamA_correct = Cardinality(judged_as(match_doc, "TEAM_A"))
             /\ s.teamB_correct = Cardinality(judged_as(match_doc, "TEAM_B"))
             /\ s.no_one = Cardinality(judged_as(match_doc, "NO_ONE"))
             /\ s.total_rounds = Len(match_doc.rounds)
             /\ judged <= s.total_rounds
             /\ (judged = s.total_rounds)
                  <=> (judged_as(match_doc, None) = {})]_vars

\* a match finished with one round judged for each team, none judged NO_ONE
\* and a third round left unjudged
FinishSummaryCountsWitness ==
  /\ resp.op = "finishMatch"
  /\ resp.code = "OK"
  /\ resp.body.teamA_correct = 1
  /\ resp.body.teamB_correct = 1
  /\ resp.body.no_one = 0
  /\ resp.body.total_rounds = 3

\* C19: createMatch with more than 6 category ids, or with an id that is
\* malformed or is not an active category, is rejected with status 400,
\* MAX_CATEGORIES_EXCEEDED for the count and INVALID_CATEGORIES for a bad id,
\* and nothing was touched: no match is stored and every user's
\* free_round_used and rounds_balance are as before.
bad_category(id) == ~is_valid(id) \/ ~Categories[id]

BadCategoriesRejectedUntouched ==
  [][\A u \in Users, sel \in CreateInputs :
       ( /\ resp'.op = "createMatch"
         /\ Len(sel) > 6 \/ \E i \in 1..Len(sel) : bad_category(sel[i])
         /\ SeqCreateMatch(u, sel) )
       => /\ resp'.status_code = 400
          /\ Len(sel) > 6 => resp'.code = "MAX_CATEGORIES_EXCEEDED"
          /\ Len(sel) <= 6 => resp'.code = "INVALID_CATEGORIES"
          /\ matches' = matches
          /\ users' = users
          /\ purchases' = purchases]_vars

\* a request naming an inactive category was refused while u1 still has the
\* free round and a paid balance, and no match is stored
BadCategoriesRejectedUntouchedWitness ==
  /\ resp.op = "createMatch"
  /\ resp.code = "INVALID_CATEGORIES"
  /\ resp.body.category_id = "c4"
  /\ ~users["u1"].free_round_used
  /\ users["u1"].rounds_balance > 0
  /\ matches = <<>>

\* C20: createMatch stores a match only after its own debit step, use_free_round
\* or consume_round, has run without failing: every insert is made by a request
\* that is past its debit, a request gets past its debit only by a step that
\* marks the free round used or takes one round off a positive balance, a
\* request whose consume_round fails or whose eligibility check fails ends
\* without a match stored and without a change to any entitlement.
debited(p) == loc[p].pc = "cm_insert"

MatchOnlyAfterDebit ==
  [][/\ matches' # matches
          => \E p \in Procs :
               /\ debited(p)
               /\ loc'[p] = Idle
               /\ matches' = Append(matches, new_match_doc(loc[p].user_id,
                                      loc[p].selected_category_ids, "A", "B", 0))
     /\ \A p \in Procs :
          /\ (loc'[p].pc = "cm_insert" /\ ~debited(p))
               => /\ loc[p].pc = "cm_debit"
                  /\ matches' = matches
                  /\ IF loc[p].use_free
                     THEN users'[loc[p].user_id].free_round_used
                     ELSE /\ users[loc[p].user_id].rounds_balance > 0
                          /\ users'[loc[p].user_id].rounds_balance
                               = users[loc[p].user_id].rounds_balance - 1
          /\ (loc[p].pc = "cm_debit" /\ loc'[p] # loc[p] /\ ~loc[p].use_free
                /\ users[loc[p].user_id].rounds_balance <= 0)
               => loc'[p] = Idle /\ matches' = matches /\ users' = users
          /\ (loc[p].pc = "idle" /\ loc'[p].pc # "idle")
               => /\ loc'[p].pc = "cm_debit"
                  /\ can_start_match(users, loc'[p].user_id).can_start
     /\ (resp'.op = "createMatch" /\ resp'.code = "NO_ROUNDS_AVAILABLE" /\ resp' # resp)
          => matches' = matches /\ users' = users /\ loc' = loc
    ]_vars

\* a request passed the eligibility check on u1's last paid round, found the
\* balance at zero at its debit and ended without a match, while the request
\* that took the round has stored its match
MatchOnlyAfterDebitWitness ==
  /\ balance0["u1"] = 1
  /\ users["u1"].rounds_balance = 0
  /\ consumeCalls["u1"] = 2
  /\ consumeOk["u1"] = 1
  /\ resp.op = "none"
  /\ \A p \in Procs : loc[p] = Idle
  /\ Len(matches) = 1

\* C21: a successful nextQuestion response carries, for the question, only
\* its id, its prompt and the boolean hint_available, taken from the question
\* served; neither the question payload nor the response has an answer or a
\* hint field, whatever the question and the state of the match.
NextQuestionHidesAnswer ==
  (resp.op = "nextQuestion" /\ resp.code = "OK")
    => /\ DOMAIN resp.body.question = {"id", "prompt", "hint_available"}
       /\ {"answer", "hint"} \cap DOMAIN resp.body = {}
       /\ resp.body.question.id = resp.body.question_id
       /\ resp.body.question.prompt = Questions[resp.body.question_id].prompt
       /\ resp.body.question.hint_available \in BOOLEAN
       /\ resp.body.question.hint_available
            = Questions[resp.body.question_id].hint.enabled

\* the question just served has an answer and an enabled hint with content,
\* and the match already had a judged round
NextQuestionHidesAnswerWitness ==
  /\ resp.op = "nextQuestion"
  /\ resp.code = "OK"
  /\ Questions[resp.body.question_id].answer # None
  /\ Questions[resp.body.question_id].hint.enabled
  /\ Questions[resp.body.question_id].hint.content # None
  /\ resp.body.round_no > 1
  /\ \E m \in DOMAIN matches : matches[m].teams.A.score > 0

\* C22: at most one account exists per email at any time: a register request
\* for an email that has an account, however the request spells it, fails with
\* USER_EXISTS (409) and stores no otp; a register request for an email
\* without an account is not refused, its delete_many removes every pending
\* register otp of the email and its insert_one stores the new one, so that
\* requests made one after the other leave exactly the last otp pending; and
\* verify-register calls, one after the other or interleaved, never add a
\* second account for an email nor remove one.
pending(docs, email) ==
  {i \in 1..Len(docs) : docs[i].email = email /\ docs[i].purpose = "register"}

OneAccountPerEmail ==
  [][/\ \A i, j \in 1..Len(accounts') :
          accounts'[i].email = accounts'[j].email => i = j
     /\ Len(accounts) <= Len(accounts')
     /\ SubSeq(accounts', 1, Len(accounts)) = accounts
     /\ \A p \in Procs, email \in EmailInputs, pw \in PasswordInputs :
          (loc[p].pc = "idle" /\ RegisterRead(p, email, pw))
            => IF find_user(accounts, lower(email))
               THEN /\ resp' = Resp("register", "USER_EXISTS", 409, NoBody)
                    /\ otps' = otps
                    /\ loc' = loc
               ELSE loc'[p].pc = "reg_delete" /\ resp' = resp
     /\ \A p \in Procs :
          /\ (loc[p].pc = "reg_delete" /\ loc'[p].pc = "reg_insert")
               => pending(otps'.docs, loc[p].email) = {}
          /\ (loc[p].pc = "reg_insert" /\ loc'[p].pc = "idle")
               => /\ resp'.op = "register" /\ resp'.code = "OK"
                  /\ Len(otps'.docs) = Len(otps.docs) + 1
                  /\ otps'.docs[Len(otps'.docs)].email = loc[p].email
                  /\ pending(otps.docs, loc[p].email) = {}
                       => pending(otps'.docs, loc[p].email) = {Len(otps'.docs)}
    ]_vars

\* two verify-register calls read the same pending otp and both passed its
\* checks; the first created the account, the second was stopped by the
\* unique index
OneAccountPerEmailWitness ==
  /\ resp.op = "verifyRegister"
  /\ resp.code = "DuplicateKeyError"
  /\ Len(accounts) = 1
  /\ otps.inserted = 1
  /\ \A p \in Procs : loc[p] = Idle

\* C23: when judgeRound requests for different rounds of a match overlap, no
\* team's stored score ever decreases and no judgment is lost: the update of
\* a request that judges a round not judged before adds the round's
\* scored_points to the stored score of the team it awards and leaves the
\* other team's stored score as it is.
ConcurrentJudgingKeepsScores ==
  [][\A p \in Procs :
       ( /\ loc[p].pc = "jr_update"
         /\ loc'[p] = Idle
         /\ ~already_judged(matches[loc[p].match_id].rounds[
                 find_round(matches[loc[p].match_id], loc[p].body.round_no)]) )
       => LET old == matches[loc[p].match_id].teams
              new == matches'[loc[p].match_id].teams
              body == loc[p].body
          IN /\ new.A.score >= old.A.score
             /\ new.B.score >= old.B.score
             /\ new.A.score = old.A.score
                  + (IF body.scored_team = "A" THEN body.scored_points ELSE 0)
             /\ new.B.score = old.B.score
                  + (IF body.scored_team = "B" THEN body.scored_points ELSE 0)]_vars

\* C24: under every interleaving of nextQuestion requests on a match, usage
\* only grows: each usage entry of a (category, level) pair is still there
\* after every step, with every question id it listed, and no entry lists a
\* question id twice.
UsageOnlyGrows ==
  [][\A m \in DOMAIN matches :
       LET old == matches[m].progress.usage
           new == matches'[m].progress.usage
       IN /\ \A i \in 1..Len(old) :
               \E j \in 1..Len(new) :
                 /\ new[j].category_id = old[i].category_id
                 /\ new[j].level = old[i].level
                 /\ Range(old[i].used_question_ids) \subseteq Range(new[j].used_question_ids)
          /\ \A j \in 1..Len(new) :
               \A a, b \in 1..Len(new[j].used_question_ids) :
                 new[j].used_question_ids[a] = new[j].used_question_ids[b] => a = b]_vars

\* C25: once the stored status of a match is finished, its rounds, its usage
\* and both team scores stay as they are, also when the finishMatch request
\* overlapped judgeRound requests that read the match while it was active.
FinishedMatchFrozen ==
  [][\A m \in DOMAIN matches :
       matches[m].status = "finished"
         => /\ matches'[m].rounds = matches[m].rounds
            /\ matches'[m].progress.usage = matches[m].progress.usage
            /\ matches'[m].teams.A.score = matches[m].teams.A.score
            /\ matches'[m].teams.B.score = matches[m].teams.B.score]_vars

\* C26: a match becomes finished once: the update of a finishMatch request
\* that is about to answer with success finds the match not yet finished, also
\* when two finishMatch requests overlap, and finished_at, once set, keeps its
\* value.
FinishedExactlyOnce ==
  [][/\ \A p \in Procs :
          (loc[p].pc = "fm_update" /\ loc'[p] = Idle)
            => matches[loc[p].match_id].status # "finished"
     /\ \A m \in DOMAIN matches :
          matches[m].finished_at # NoTime
            => matches'[m].finished_at = matches[m].finished_at]_vars

\* C27: abandoned is a terminal status: no request changes the status of a
\* match whose status is abandoned; in particular finishMatch does not make
\* it finished.
AbandonedIsTerminal ==
  [][\A m \in DOMAIN matches :
       matches[m].status = "abandoned" => matches'[m].status = "abandoned"]_vars

\* C28: the free round pays for at most one match, also when createMatch
\* requests of a user overlap: a user never owns more matches than one (for
\* the free round) plus the paid rounds taken off the user's rounds_balance.
FreeRoundFundsOneMatch ==
  \A u \in Users :
    Cardinality({m \in DOMAIN matches : matches[m].created_by_user_id = u})
      <= 1 + (balance0[u] - users[u].rounds_balance)

\* C29: in every state another request can observe, rounds and usage of a
\* match agree: for each category and level, the ids in the pair's usage
\* entry are exactly the question ids of the rounds of that pair, and a pair
\* without rounds has no ids recorded.
used_ids(match_doc, category_id, level) ==
  UNION { Range(match_doc.progress.usage[i].used_question_ids) :
            i \in {j \in 1..Len(match_doc.progress.usage) :
                     /\ match_doc.progress.usage[j].category_id = category_id
                     /\ match_doc.progress.usage[j].level = level} }

round_ids(match_doc, category_id, level) ==
  { match_doc.rounds[i].question_id :
      i \in {j \in 1..Len(match_doc.rounds) :
               /\ match_doc.rounds[j].category_id = category_id
               /\ match_doc.rounds[j].level = level} }

RoundsAgreeWithUsage ==
  \A m \in DOMAIN matches :
    \A c \in CategoryIds, l \in Levels :
      used_ids(matches[m], c, l) = round_ids(matches[m], c, l)

\* C30: the points of every round are the fixed value of its level (100 for
\* level 1, 200 for level 2, 500 for level 3), and a successful judgeRound
\* sets scored_team A and scored_points = points for TEAM_A, B and points for
\* TEAM_B, null and 0 for NO_ONE, adds scored_points to the score of exactly
\* that team, leaves the other score and every other round as they are, and
\* returns the two scores as stored.
FixedPoints == [l \in Levels |-> IF l = 1 THEN 100 ELSE IF l = 2 THEN 200 ELSE 500]

JudgeRoundScores ==
  [][/\ \A l \in Levels : LEVEL_POINTS(l) = FixedPoints[l]
     /\ \A m \in DOMAIN matches' :
          \A i \in 1..Len(matches'[m].rounds) :
            matches'[m].rounds[i].points = FixedPoints[matches'[m].rounds[i].level]
     /\ \A i \in JudgeRoundInputs :
          ( /\ resp'.op = "judgeRound"
            /\ resp'.code = "OK"
            /\ SeqJudgeRound(i[1], i[2], i[3], i[4]) )
          => LET old == matches[i[1]]
                 new == matches'[i[1]]
                 k == find_round(old, i[3])
                 team == IF i[4] = "TEAM_A" THEN "A" ELSE IF i[4] = "TEAM_B" THEN "B" ELSE None
                 gain == IF i[4] = "NO_ONE" THEN 0 ELSE old.rounds[k].points
             IN /\ new.rounds[k].judge_selection = i[4]
                /\ new.rounds[k].scored_team = team
                /\ new.rounds[k].scored_points = gain
                /\ new.rounds[k].points = old.rounds[k].points
                /\ new.teams.A.score = old.teams.A.score + (IF team = "A" THEN gain ELSE 0)
                /\ new.teams.B.score = old.teams.B.score + (IF team = "B" THEN gain ELSE 0)
                /\ Len(new.rounds) = Len(old.rounds)
                /\ \A j \in 1..Len(old.rounds) : j # k => new.rounds[j] = old.rounds[j]
                /\ resp'.body.teamA = new.teams.A.score
                /\ resp'.body.teamB = new.teams.B.score]_vars

\* a round has just been judged NO_ONE in a match where team A holds the 100
\* points of a level-1 round and team B the 500 points of a level-3 round
JudgeRoundScoresWitness ==
  /\ resp.op = "judgeRound"
  /\ resp.code = "OK"
  /\ resp.body.judge_selection = "NO_ONE"
  /\ resp.body.scored_points = 0
  /\ resp.body.teamA = 100
  /\ resp.body.teamB = 500

\* C31: a successful finishMatch changes only status, which becomes finished,
\* and finished_at: team names, avatars and scores, every round (an unjudged
\* round stays unjudged with scored_points 0), usage, settings, the selected
\* categories and the owner are as before, and so is every other match.
FinishChangesOnlyStatus ==
  [][\A mu \in Callers :
       ( /\ resp'.op = "finishMatch"
         /\ resp'.code = "OK"
         /\ SeqFinishMatch(mu[1], mu[2]) )
       => /\ matches'[mu[1]].status = "finished"
          /\ matches'[mu[1]].finished_at # NoTime
          /\ matches' = [matches EXCEPT ![mu[1]].status = "finished",
                                        ![mu[1]].finished_at = matches'[mu[1]].finished_at]
          /\ \A i \in 1..Len(matches[mu[1]].rounds) :
               matches[mu[1]].rounds[i].judge_selection = None
                 => /\ matches'[mu[1]].rounds[i].judge_selection = None
                    /\ matches'[mu[1]].rounds[i].scored_points = 0
          /\ users' = users]_vars

\* a match was finished with a renamed team, a judged round and an unjudged
\* round that is still unjudged
FinishChangesOnlyStatusWitness ==
  /\ resp.op = "finishMatch"
  /\ resp.code = "OK"
  /\ \E m \in DOMAIN matches :
       /\ matches[m].status = "finished"
       /\ matches[m].teams.A.name = "Alpha"
       /\ matches[m].teams.A.score > 0
       /\ \E i \in 1..Len(matches[m].rounds) : matches[m].rounds[i].judge_selection = None

\* C32: on an active match of the caller, for a selected category and a level
\* whose usage entry holds fewer than questions_per_level ids while no active
\* question of that category and level is left unused, nextQuestion answers
\* NO_QUESTIONS_LEFT_FOR_LEVEL (409), appends no round and changes no usage,
\* and the same request repeated on the resulting state gets the same answer.
unused_active(match_doc, category_id, level) ==
  {q \in 1..Len(Questions) :
     /\ Questions[q].category_id = category_id
     /\ Questions[q].level = level
     /\ Questions[q].status = "active"
     /\ q \notin used_ids(match_doc, category_id, level)}

PoolExhaustedIsNoQuestionsLeft ==
  [][\A i \in NextQuestionInputs :
       ( /\ resp'.op = "nextQuestion"
         /\ owned_match(matches, i[1], i[2])
         /\ matches[i[1]].status = "active"
         /\ i[3] \in Range(matches[i[1]].selected_category_ids)
         /\ Cardinality(used_ids(matches[i[1]], i[3], i[4]))
              < get_questions_per_level(matches[i[1]], i[4])
         /\ unused_active(matches[i[1]], i[3], i[4]) = {}
         /\ SeqNextQuestion(i[1], i[2], i[3], i[4]) )
       => /\ resp'.code = "NO_QUESTIONS_LEFT_FOR_LEVEL"
          /\ resp'.status_code = 409
          /\ matches' = matches
          /\ next_question_plan(matches', i[1], i[2], i[3], i[4]) = resp']_vars

\* the only level-3 question of category c2 is used, the quota of 2 is not
\* reached, and a further request for the pair has just been refused
PoolExhaustedIsNoQuestionsLeftWitness ==
  /\ resp.op = "nextQuestion"
  /\ resp.code = "NO_QUESTIONS_LEFT_FOR_LEVEL"
  /\ resp.body.category_id = "c2"
  /\ resp.body.level = 3
  /\ \E m \in DOMAIN matches :
       /\ matches[m].status = "active"
       /\ used_ids(matches[m], "c2", 3) = {6}
       /\ get_questions_per_level(matches[m], 3) = 2

\* C33: pick_next_question(category, level, excluded) returns only a question
\* that is active, has the requested category and level, has the points of
\* the level and whose id is not in excluded; it returns no question exactly
\* when the pool holds no such question; and over the fixed pool the answer
\* is a function of the category, the level and the set of excluded ids: any
\* list with the same ids, in any order, gets the same question.
eligible(category_id, level, excluded) ==
  {q \in 1..Len(Questions) :
     /\ Questions[q].status = "active"
     /\ Questions[q].category_id = category_id
     /\ Questions[q].level = level
     /\ Questions[q].points = FixedPoints[level]
     /\ \A k \in 1..Len(excluded) : excluded[k] # q}

SelectedCategoriesWellFormed ==
  \A m \in 1..Len(matches) :
    matches[m].status # "deleted"
      => LET sel == matches[m].selected_category_ids
         IN /\ Len(sel) >= 1
            /\ Len(sel) <= MAX_CATEGORIES
            /\ \A i, j \in 1..Len(sel) : sel[i] = sel[j] => i = j
            /\ \A r \in 1..Len(matches[m].rounds) :
                 matches[m].rounds[r].category_id \in Range(sel)

\* C34, the parts the code keeps: the list has between 1 and 6 ids, every
\* round's category is one of them, and no request changes the list of a
\* match once it is stored.
SelectedCategoriesFixed ==
  [][ /\ Len(matches') >= Len(matches)
      /\ \A m \in 1..Len(matches) :
           matches'[m].selected_category_ids = matches[m].selected_category_ids
      /\ \A m \in 1..Len(matches') :
           LET sel == matches'[m].selected_category_ids
           IN /\ Len(sel) \in 1..MAX_CATEGORIES
              /\ \A r \in 1..Len(matches'[m].rounds) :
                   matches'[m].rounds[r].category_id \in Range(sel) ]_vars

\* C35: a user's rounds_balance is at least 0 in every reachable state, with
\* createMatch and round-pack purchases of the number of rounds the caller
\* sends.
BalanceNeverNegative ==
  \A u \in Users : users[u].rounds_balance >= 0

\* C36: the purchase records are a ledger of the balance: with requests
\* running one at a time, after each of them every user's rounds_balance is
\* the sum of rounds_delta over the user's purchase records minus the number
\* of consume_round debits that succeeded for the user.
ledger_sum(ps, user_id) ==
  SumSeq([i \in 1..Len(ps) |-> IF ps[i].user_id = user_id THEN ps[i].rounds_delta ELSE 0])

PurchasesAreLedger ==
  \A u \in Users : users[u].rounds_balance = ledger_sum(purchases, u) - consumeOk[u]

\* C36, the part the code keeps: a round-pack purchase adds exactly one
\* purchase record, of the caller, carrying the rounds of the request, and
\* adds the same number to the caller's balance.
PurchaseRecordsDelta ==
  [][\A u \in Users, rounds \in RoundsInputs :
       (resp'.op = "purchaseRoundPack" /\ SeqPurchaseRoundPack(u, rounds))
         => /\ Len(purchases') = Len(purchases) + 1
            /\ purchases'[Len(purchases')].user_id = u
            /\ purchases'[Len(purchases')].rounds_delta = rounds
            /\ users'[u].rounds_balance = users[u].rounds_balance + rounds
            /\ \A i \in 1..Len(purchases) : purchases'[i] = purchases[i]]_vars

\* C37: getRoundHint and getRoundAnswer called by the owner fail with
\* ROUND_NOT_FOUND for a round_no no round of the match has, fail with
\* QUESTION_NOT_FOUND when the round's question has been deleted from the
\* pool, otherwise return the hint / the answer the pool holds for the
\* round's question, whether the match is active or finished; and in no case
\* do they change the match.
rounds_numbered(match_doc, round_no) ==
  {r \in 1..Len(match_doc.rounds) : match_doc.rounds[r].round_no = round_no}

RoundOutcome(i, stored) ==
  LET ks == rounds_numbered(matches[i[1]], i[3])
      qid == matches[i[1]].rounds[Min(ks)].question_id
  IN /\ matches' = matches
     /\ ks = {} => resp'.code = "ROUND_NOT_FOUND" /\ resp'.status_code = 404
     /\ (ks # {} /\ qid \in deleted_questions)
          => resp'.code = "QUESTION_NOT_FOUND" /\ resp'.status_code = 404
     /\ (ks # {} /\ qid \notin deleted_questions)
          => /\ resp'.code = "OK"
             /\ matches[i[1]].status \in {"active", "finished"}
             /\ resp'.body = IF stored = "hint" THEN Questions[qid].hint
                             ELSE [answer |-> Questions[qid].answer]

HintAndAnswerOfRound ==
  [][\A i \in RoundInputs :
       /\ ( /\ resp'.op = "getRoundHint"
            /\ owned_match(matches, i[1], i[2])
            /\ SeqGetRoundHint(i[1], i[2], i[3]) )
            => RoundOutcome(i, "hint")
       /\ ( /\ resp'.op = "getRoundAnswer"
            /\ owned_match(matches, i[1], i[2])
            /\ SeqGetRoundAnswer(i[1], i[2], i[3]) )
            => RoundOutcome(i, "answer")]_vars

\* the owner asks for the answer of round 1 of the finished match after
\* question 2, which the round holds, was deleted
HintAndAnswerOfRoundWitness ==
  /\ resp.op = "getRoundAnswer"
  /\ resp.code = "QUESTION_NOT_FOUND"
  /\ resp.status_code = 404
  /\ Len(matches) = 1
  /\ matches[1].status = "finished"
  /\ matches[1].rounds[1].question_id = 2
  /\ 2 \in deleted_questions

\* C38: a stored otp is redeemed at most once: two verify requests, one
\* after the other or overlapping, never both succeed on the same stored otp
\* document.
OtpRedeemedOnce ==
  [][( /\ resp'.op = "verifyLogin" /\ resp'.code = "OK"
       /\ resp.op = "verifyLogin" /\ resp.code = "OK"
       /\ resp'.body.request # resp.body.request )
       => resp'.body.otp._id # resp.body.otp._id]_vars

====
